---- MODULE Spec2Model ----
(***************************************************************************)
(* Test execution engine of api-lab-mcp: the batch orchestrator            *)
(* (BatchTestService), the request executor (HttpTestClient) and the       *)
(* credential resolver (AuthenticationService).                            *)
(*                                                                         *)
(* The program runs on one JavaScript event loop.  A coroutine runs        *)
(* without interruption from one await to the next; timer expiries, HTTP   *)
(* completions and calls from outside (abort) are separate event-loop      *)
(* tasks and can only happen while the batch's main coroutine is           *)
(* suspended at an await.                                                  *)
(***************************************************************************)
EXTENDS Integers, Sequences, FiniteSets, TLC

\* ---------------------------------------------------------------- bounds
NumTests == 3
NumCalls == 2
NumCallers == 2
MaxFetches == 2
MaxTicks == 2
MaxAssertions == 2
MaxResults == 2

\* ------------------------------------------------------ program constants
DefaultMaxConcurrent == 5
DefaultDelayBetween == 0
DefaultRetryAttempts == 0
DefaultClientRetryAttempts == 0
DefaultRetryDelay == 1000
DefaultExpiresIn == 3600
MsPerSecond == 1000
OrchBackoffUnit == 1000
MaxConcurrentLimit == 10
RetryAttemptsLimit == 3

\* -------------------------------------------------------------- variables
VARIABLES
  clientCfg,    \* HttpTestClient.config: retryAttempts, retryDelay
  opts,         \* executeBatch: opts (the options after defaulting)
  tests,        \* executeBatch: validatedTests
  mainPc,       \* position of executeBatch / executeSequential / executeParallel
  idx,          \* executeSequential: i (1-based)
  queue,        \* executeParallel: queue
  executing,    \* executeParallel: executing (the tests whose promise is in it)
  tst,          \* per test: position inside executeTest and its counters
  results,      \* executeBatch: results
  stopped,      \* executeBatch: stopped
  ctrl,         \* this.abortController # null
  aborted,      \* this.abortController.signal.aborted
  extAbort,     \* history: abort() was called from outside during the batch
  report,       \* the BatchTestReport returned by executeBatch
  metrics,      \* HttpTestClient.metrics: request id -> RequestMetrics
  calls,        \* per direct call of the client (get, post, ...): its position
  tokenCache,         \* AuthenticationService.tokenCache
  tokenExpiryTimes,   \* AuthenticationService.tokenExpiryTimes
  now,                \* Date.now(), in ms
  ticks,              \* history: clock steps taken
  fetches,            \* history: token requests sent to the token endpoint
  callers,            \* per caller of getOAuth2Headers: its position
  vResults,     \* ValidationService.results
  vReport,      \* the ValidationReport last returned
  vThrew,       \* the last call of the ValidationService threw
  vInput,       \* the response and assertions last given to validateAssertions
  currentAuth,  \* AuthenticationService.currentAuth
  resolution,   \* the last getAuthHeaders call: its credential and its outcome
  testAuth,     \* per test: executeTest's previousAuth and what its requests carried
  testSummary,  \* per test: executeTest's assertionSummary
  priorAbort,   \* history: the signal of an earlier executeBatch call was aborted
  twa,          \* the TestWithAssertions object: its clients and requests
  mgrs,         \* the SessionManager objects: sessions and currentSessionId
  cm            \* the ConfigManager: configFile and currentEnvironment

batchVars == <<clientCfg, opts, tests, mainPc, idx, queue, executing, tst,
               results, stopped, ctrl, aborted, extAbort, report>>

httpVars == <<metrics, calls>>

authVars == <<tokenCache, tokenExpiryTimes, now, ticks, fetches, callers>>

valVars == <<vResults, vReport, vThrew, vInput>>

credVars == <<currentAuth, resolution>>

ctxVars == <<testAuth, testSummary, priorAbort>>

toolVars == <<twa, mgrs, cm>>

vars == <<batchVars, httpVars, authVars, valVars, credVars, ctxVars, toolVars>>

\* what the actions of one component leave alone
notBatch == <<httpVars, authVars, valVars, credVars, ctxVars, toolVars>>
notHttp == <<batchVars, authVars, valVars, credVars, ctxVars, toolVars>>
notAuth == <<batchVars, httpVars, valVars, ctxVars, toolVars>>
notVal == <<batchVars, httpVars, authVars, credVars, ctxVars, toolVars>>
notCred == <<batchVars, httpVars, authVars, valVars, ctxVars, toolVars>>

\* ------------------------------------------------------------ HTTP client
\* What one HTTP attempt can end with: a 2xx response, a 4xx response, a 5xx
\* response, no response at all (connection refused, DNS, timeout), or the
\* cancellation raised by the abort signal (an error without a response).
HttpOutcomes == {"ok", "client4xx", "server5xx", "neterr"}
Canceled == "canceled"

HasResponse(o) == o \in {"ok", "client4xx", "server5xx"}

\* HttpTestClient.shouldRetry
ShouldRetry(o) ==
  IF ~HasResponse(o) THEN TRUE ELSE o = "server5xx"

RECURSIVE Pow2(_)
Pow2(n) == IF n <= 0 THEN 1 ELSE 2 * Pow2(n - 1)

\* mutant of ClientRetries: the budget test off by one
ClientRetriesOffByOne(retryCount, retryAttempts, o) ==
  retryCount <= retryAttempts /\ ShouldRetry(o)

\* the response error interceptor's retry test and its wait
ClientRetries(retryCount, retryAttempts, o) ==
  retryCount < retryAttempts /\ ShouldRetry(o)

ClientRetryDelay(retryDelay, retryCount) == retryDelay * Pow2(retryCount)

Opt(o, f, d) == IF f \in DOMAIN o THEN o[f] ELSE d

\* HttpTestClient constructor: the defaults, overridden by the given config
ClientConfig(given) ==
  [ retryAttempts |-> Opt(given, "retryAttempts", DefaultClientRetryAttempts),
    retryDelay    |-> Opt(given, "retryDelay", DefaultRetryDelay) ]

\* the configs the batch's client is constructed with
ClientRetryChoices == {0, 1}

ClientConfigs ==
  { ClientConfig(g) : g \in { <<>> } \cup [retryAttempts : ClientRetryChoices] }

\* the configs a directly used client is constructed with
RetryDelayChoices == {250, 1000}
HttpRetryChoices == {0, 1, 2}

HttpClientConfigs ==
  { ClientConfig(g) :
      g \in { <<>> } \cup
            [retryAttempts : HttpRetryChoices, retryDelay : RetryDelayChoices] }

\* RequestMetrics.retryCount is optional
Undefined == -1

NoMetrics == [retryCount |-> Undefined, ended |-> FALSE, attached |-> FALSE]

\* request interceptor: "Store initial metrics"
InitialMetrics == [retryCount |-> Undefined, ended |-> FALSE]

IdleCall ==
  [pc |-> "idle", retryCount |-> 0, requestId |-> 0, attempts |-> 0, wait |-> 0,
   last |-> "none", out |-> NoMetrics]

\* (response as any).metrics = metrics / (error as any).metrics = metrics
Attach(m) == [retryCount |-> m.retryCount, ended |-> m.ended, attached |-> TRUE]

\* A call of get/post/...: the request interceptor runs (a new request id, the
\* initial metrics stored under it) and the request is sent.
HttpRequest(c) ==
  /\ calls[c].pc = "idle"
  /\ metrics' = Append(metrics, InitialMetrics)
  /\ calls' = [calls EXCEPT ![c] =
       [@ EXCEPT !.pc = "inflight", !.requestId = Len(metrics) + 1,
                 !.retryCount = 0, !.attempts = 1]]

\* The request interceptor fails (applyAuth throws): the error carries no
\* config, the response error interceptor rejects it at once.
HttpSetupFails(c) ==
  /\ calls[c].pc = "idle"
  /\ calls' = [calls EXCEPT ![c] = [@ EXCEPT !.pc = "rejected", !.last = "setup"]]
  /\ UNCHANGED metrics

\* response interceptor, success handler: a 2xx response
HttpRespondOk(c) ==
  /\ calls[c].pc = "inflight"
  /\ LET id == calls[c].requestId
         m  == [metrics[id] EXCEPT !.ended = TRUE]
     IN /\ metrics' = [metrics EXCEPT ![id] = m]
        /\ calls' = [calls EXCEPT ![c] =
             [@ EXCEPT !.pc = "resolved", !.last = "ok", !.out = Attach(m)]]

\* response interceptor, error handler: a non-2xx response or no response
HttpRespondError(c, o) ==
  /\ calls[c].pc = "inflight"
  /\ o \in HttpOutcomes \ {"ok"}
  /\ LET id == calls[c].requestId
         rc == calls[c].retryCount
     IN IF ClientRetries(rc, clientCfg.retryAttempts, o)
          THEN /\ metrics' = [metrics EXCEPT ![id].retryCount = rc + 1]
               /\ calls' = [calls EXCEPT ![c] =
                    [@ EXCEPT !.pc = "backoff", !.retryCount = rc + 1,
                              !.wait = ClientRetryDelay(clientCfg.retryDelay, rc),
                              !.last = o]]
          ELSE LET m == [retryCount |-> rc, ended |-> TRUE]
               IN /\ metrics' = [metrics EXCEPT ![id] = m]
                  /\ calls' = [calls EXCEPT ![c] =
                       [@ EXCEPT !.pc = "rejected", !.last = o, !.out = Attach(m)]]

\* the retry delay expires: this.client.request(config) sends the request
\* through the request interceptor again (a new request id, new metrics)
HttpRetryFires(c) ==
  /\ calls[c].pc = "backoff"
  /\ metrics' = Append(metrics, InitialMetrics)
  /\ calls' = [calls EXCEPT ![c] =
       [@ EXCEPT !.pc = "inflight", !.requestId = Len(metrics) + 1,
                 !.attempts = @ + 1, !.wait = 0]]

\* ------------------------------------------------------- batch: the inputs
DelayChoices == {0, 100}
ConcurrencyChoices == {1, 2}
SeqRetryChoices == {1, 2, 3}
ParRetryChoices == {1}

\* BatchTestRequest: name and url are required, delay is optional
TestInputs ==
  { [name |-> "t", url |-> "u"], [name |-> "t", url |-> "u", delay |-> 100] }

\* elements BatchTestRequestSchema refuses: a required field missing, a delay
\* that is not positive
MalformedTests ==
  { [name |-> "t"], [name |-> "t", url |-> "u", delay |-> 0],
    [name |-> "t", url |-> "u", delay |-> -100] }

\* "if (test.delay)": an absent delay is falsy
TestDelay(x) == Opt(x, "delay", 0)

\* test lists of every length up to NumTests, the tests of one list alike
TestLists == UNION { [1..n -> {x}] : n \in 0..NumTests, x \in TestInputs }

\* test lists with an element the schema refuses, at any position
MalformedLists ==
  UNION { { [i \in 1..n |-> IF i = k THEN b ELSE x] :
              k \in 1..n, b \in MalformedTests, x \in TestInputs } :
          n \in 1..NumTests }

\* BatchTestRequestSchema.parse
ValidTest(x) ==
  /\ {"name", "url"} \subseteq DOMAIN x
  /\ ("delay" \in DOMAIN x) => x.delay > 0

\* mutant of ValidOptions: the upper limit of maxConcurrent left out
ValidOptionsNoLimit(o) ==
  /\ ("maxConcurrent" \in DOMAIN o) => o.maxConcurrent > 0
  /\ ("delayBetween" \in DOMAIN o) => o.delayBetween >= 0
  /\ ("retryAttempts" \in DOMAIN o) =>
       (o.retryAttempts >= 0 /\ o.retryAttempts <= RetryAttemptsLimit)

\* BatchTestOptionsSchema.parse
ValidOptions(o) ==
  /\ ("maxConcurrent" \in DOMAIN o) =>
       (o.maxConcurrent > 0 /\ o.maxConcurrent <= MaxConcurrentLimit)
  /\ ("delayBetween" \in DOMAIN o) => o.delayBetween >= 0
  /\ ("retryAttempts" \in DOMAIN o) =>
       (o.retryAttempts >= 0 /\ o.retryAttempts <= RetryAttemptsLimit)

\* retryOnFailure and retryAttempts, given together or left to their defaults
RetryInputs(choices) ==
  { <<>> } \cup [retryOnFailure : BOOLEAN, retryAttempts : choices]

\* f @@ g for records: the fields of both
Merge(f, g) ==
  [x \in DOMAIN f \cup DOMAIN g |-> IF x \in DOMAIN f THEN f[x] ELSE g[x]]

SeqInputs ==
  { <<>> } \cup
  { Merge([parallel |-> FALSE, stopOnFailure |-> s, delayBetween |-> d], r) :
      s \in BOOLEAN, d \in DelayChoices, r \in RetryInputs(SeqRetryChoices) }

ParInputs ==
  { Merge([parallel |-> TRUE, maxConcurrent |-> m, stopOnFailure |-> s,
           delayBetween |-> d], r) :
      m \in ConcurrencyChoices, s \in BOOLEAN, d \in DelayChoices,
      r \in RetryInputs(ParRetryChoices) }

\* options BatchTestOptionsSchema refuses: one number out of its range
InvalidOptions ==
  [parallel : BOOLEAN, maxConcurrent : {0, MaxConcurrentLimit + 1}] \cup
  [parallel : BOOLEAN, retryOnFailure : {TRUE},
   retryAttempts : {-1, RetryAttemptsLimit + 1}] \cup
  [parallel : BOOLEAN, delayBetween : {-1}]

\* executeBatch: "Set defaults"
WithDefaults(o) ==
  [ parallel       |-> Opt(o, "parallel", FALSE),
    maxConcurrent  |-> Opt(o, "maxConcurrent", DefaultMaxConcurrent),
    stopOnFailure  |-> Opt(o, "stopOnFailure", FALSE),
    delayBetween   |-> Opt(o, "delayBetween", DefaultDelayBetween),
    retryOnFailure |-> Opt(o, "retryOnFailure", FALSE),
    retryAttempts  |-> Opt(o, "retryAttempts", DefaultRetryAttempts) ]

\* mutant of MaxAttempts: the first try not counted
MaxAttemptsOffByOne(o) == IF o.retryOnFailure THEN o.retryAttempts ELSE 1

\* executeTest: maxAttempts
MaxAttempts(o) == IF o.retryOnFailure THEN o.retryAttempts + 1 ELSE 1

\* executeTest: the wait before the next orchestrator-level try
OrchBackoff(attempts) == OrchBackoffUnit * attempts

PendingTest ==
  [pc |-> "pending", attempts |-> 0, retryCount |-> 0, wait |-> 0, last |-> "none",
   late |-> FALSE]

\* executeTest up to its first await: the first try's request is issued, with
\* config.signal = the batch's signal.  late records (history) that the signal
\* was already aborted when the test was started.
StartedTest ==
  [pc |-> "http", attempts |-> 1, retryCount |-> 0, wait |-> 0, last |-> "none",
   late |-> aborted]

NoReport == [made |-> FALSE]

\* The main coroutine is suspended at an await (or no batch is running), so
\* the event loop can run another task.
MainSuspended ==
  mainPc \in {"idle", "seqDelayBetween", "seqTestDelay", "seqExec",
              "parDelay", "parRace", "parAll", "returned", "rejected"}

BatchRunning == mainPc \notin {"idle", "returned", "rejected"}

BatchIdle ==
  /\ opts = WithDefaults(<<>>)
  /\ tests = <<>>
  /\ mainPc = "idle"
  /\ idx = 1
  /\ queue = <<>>
  /\ executing = {}
  /\ tst = [t \in 1..NumTests |-> PendingTest]
  /\ results = <<>>
  /\ stopped = FALSE
  /\ ctrl = FALSE
  /\ aborted = FALSE
  /\ extAbort = FALSE
  /\ report = NoReport

HttpIdle ==
  /\ metrics = <<>>
  /\ calls = [c \in 1..NumCalls |-> IdleCall]

\* ---------------------------------------------------- AuthenticationService
\* the client_credentials credentials in use: clientId and tokenUrl
OAuthConfigs == [clientId : {"c1", "c2"}, tokenUrl : {"u1"}]

\* fetchOAuth2Token: cacheKey
CacheKey(cfg) == <<cfg.clientId, cfg.tokenUrl>>

\* expires_in of a token response, in seconds; Undefined when the field is absent
ExpiresInChoices == {Undefined, 0, 1}

\* the clock steps, in ms
TickChoices == {MsPerSecond, DefaultExpiresIn * MsPerSecond}

\* tokenResponse.expires_in || 3600
ExpiresInOrDefault(e) == IF e = Undefined \/ e = 0 THEN DefaultExpiresIn ELSE e

\* fetchOAuth2Token: "Set expiry time"
ExpiryTime(t, e) == t + ExpiresInOrDefault(e) * MsPerSecond

\* fetchOAuth2Token: "Check cache"
CacheHit(k) ==
  /\ k \in DOMAIN tokenCache
  /\ k \in DOMAIN tokenExpiryTimes
  /\ tokenExpiryTimes[k] # 0
  /\ now < tokenExpiryTimes[k]

\* Map.set
Put(m, k, v) == [x \in DOMAIN m \cup {k} |-> IF x = k THEN v ELSE m[x]]

IdleCaller ==
  [pc |-> "idle", key |-> <<"none", "none">>, fetchNo |-> 0, token |-> 0,
   viaCache |-> FALSE]

\* currentAuth: AuthConfig | null
NoAuth == [type |-> "null"]

AuthIdle ==
  /\ currentAuth = NoAuth
  /\ resolution = [made |-> FALSE]
  /\ tokenCache = <<>>
  /\ tokenExpiryTimes = <<>>
  /\ now = 0
  /\ ticks = 0
  /\ fetches = 0
  /\ callers = [c \in 1..NumCallers |-> IdleCaller]

\* getOAuth2Headers for a client_credentials credential without accessToken:
\* fetchOAuth2Token up to its return from the cache or to the token request.
AuthResolve(c, cfg) ==
  /\ callers[c].pc = "idle"
  /\ LET k == CacheKey(cfg)
     IN IF CacheHit(k)
          THEN /\ callers' = [callers EXCEPT ![c] =
                    [pc |-> "done", key |-> k, fetchNo |-> 0,
                     token |-> tokenCache[k].access_token, viaCache |-> TRUE]]
               /\ UNCHANGED fetches
          ELSE /\ fetches < MaxFetches
               /\ fetches' = fetches + 1
               /\ callers' = [callers EXCEPT ![c] =
                    [pc |-> "fetching", key |-> k, fetchNo |-> fetches + 1,
                     token |-> 0, viaCache |-> FALSE]]
  /\ UNCHANGED <<tokenCache, tokenExpiryTimes, now, ticks>>

\* the token endpoint answers: "Cache the token", "Set expiry time"
AuthFetchReturns(c, e) ==
  /\ callers[c].pc = "fetching"
  /\ LET k == callers[c].key
         response == [access_token |-> callers[c].fetchNo, expires_in |-> e]
     IN /\ tokenCache' = Put(tokenCache, k, response)
        /\ tokenExpiryTimes' = Put(tokenExpiryTimes, k, ExpiryTime(now, e))
        /\ callers' = [callers EXCEPT ![c] =
             [@ EXCEPT !.pc = "done", !.token = response.access_token]]
  /\ UNCHANGED <<now, ticks, fetches>>

\* the token request fails: "OAuth2: Failed to fetch token"
AuthFetchFails(c) ==
  /\ callers[c].pc = "fetching"
  /\ callers' = [callers EXCEPT ![c] = [@ EXCEPT !.pc = "failed"]]
  /\ UNCHANGED <<tokenCache, tokenExpiryTimes, now, ticks, fetches>>

\* the caller's request is over; it can make another one
AuthRelease(c) ==
  /\ callers[c].pc \in {"done", "failed"}
  /\ callers' = [callers EXCEPT ![c] = IdleCaller]
  /\ UNCHANGED <<tokenCache, tokenExpiryTimes, now, ticks, fetches>>

\* mutant of ClearAuth: the expiry entries left in place
ClearAuthKeepsExpiry ==
  /\ currentAuth' = NoAuth
  /\ tokenCache' = <<>>
  /\ UNCHANGED <<tokenExpiryTimes, now, ticks, fetches, callers>>

\* getAuth
GetAuth == currentAuth

\* clearAuth
ClearAuth ==
  /\ currentAuth' = NoAuth
  /\ tokenCache' = <<>>
  /\ tokenExpiryTimes' = <<>>
  /\ UNCHANGED <<now, ticks, fetches, callers>>

\* time passes
Tick(d) ==
  /\ ticks < MaxTicks
  /\ ticks' = ticks + 1
  /\ now' = now + d
  /\ UNCHANGED <<tokenCache, tokenExpiryTimes, fetches, callers>>

\* ------------------------------------- AuthenticationService.getAuthHeaders
\* A header map is a function from header names to values; a value built by
\* string concatenation is kept as the sequence of its parts.
Header(n, v) == [x \in {n} |-> v]

NoHeaders == <<>>

BearerInputs ==
  [type : {"bearer"}, token : {"t1"}] \cup
  [type : {"bearer"}, token : {"t1"}, prefix : {"Token"}]

BasicInputs == [type : {"basic"}, username : {"u1"}, password : {"p1", "p2"}]

ApiKeyInputs ==
  [type : {"apikey"}, key : {"k1"}] \cup
  [type : {"apikey"}, key : {"k1"}, header : {"X-Key"}] \cup
  [type : {"apikey"}, key : {"k1"}, prefix : {"Key"}] \cup
  [type : {"apikey"}, key : {"k1"}, header : {"X-Key"}, prefix : {"Key"}]

\* SessionAuthConfig.headers: none, one beside the cookie, one named Cookie
ExtraHeaders ==
  { NoHeaders, Header("X-XSRF-TOKEN", <<"x1">>), Header("Cookie", <<"other">>) }

SessionInputs ==
  [type : {"session"}, cookies : {"c1", "c2"}] \cup
  [type : {"session"}, cookies : {"c1", "c2"}, headers : ExtraHeaders]

\* credentials without a field their kind needs.  setAuth and the client's
\* constructor take them as they are; setAuthToken builds the second one from
\* a token without a colon.
IncompleteInputs ==
  { [type |-> "bearer"], [type |-> "basic", username |-> "u1"],
    [type |-> "basic", password |-> "p1"], [type |-> "apikey"],
    [type |-> "apikey", prefix |-> "Key"] }

\* a template literal prints an absent field as the word undefined
Str(c, f) == Opt(c, f, "undefined")

\* the credentials resolved without a token request
CredInputs == BearerInputs \cup BasicInputs \cup ApiKeyInputs \cup SessionInputs

\* getBearerHeaders
GetBearerHeaders(c) ==
  Header("Authorization", <<Opt(c, "prefix", "Bearer"), " ", Str(c, "token")>>)

\* getBasicHeaders
GetBasicHeaders(c) ==
  Header("Authorization",
         <<"Basic", " ", "base64", Str(c, "username"), ":", Str(c, "password")>>)

\* getApiKeyHeaders; without a prefix the value is config.key itself, and an
\* absent key leaves a header without a value
GetApiKeyHeaders(c) ==
  Header(Opt(c, "header", "X-API-Key"),
         IF "prefix" \in DOMAIN c THEN <<c.prefix, " ", Str(c, "key")>>
         ELSE IF "key" \in DOMAIN c THEN <<c.key>> ELSE <<>>)

\* getAuthHeaders: the switch over auth.type; its default case throws
HeadersFor(auth) ==
  IF auth.type = "null" THEN [threw |-> FALSE, headers |-> NoHeaders]
  ELSE IF auth.type = "bearer" THEN [threw |-> FALSE, headers |-> GetBearerHeaders(auth)]
  ELSE IF auth.type = "basic" THEN [threw |-> FALSE, headers |-> GetBasicHeaders(auth)]
  ELSE IF auth.type = "apikey" THEN [threw |-> FALSE, headers |-> GetApiKeyHeaders(auth)]
  ELSE [threw |-> TRUE, headers |-> NoHeaders]

\* setAuth
SetAuth(a) ==
  /\ currentAuth' = a
  /\ UNCHANGED resolution

\* getAuthHeaders(authConfig?): arg.type = "null" stands for no argument
GetAuthHeaders(arg) ==
  /\ LET auth == IF arg.type # "null" THEN arg ELSE currentAuth
         r == HeadersFor(auth)
     IN resolution' = [made |-> TRUE, auth |-> auth, threw |-> r.threw,
                       headers |-> r.headers]
  /\ UNCHANGED currentAuth

\* applyAuth for a request whose config has the headers own: the headers of
\* the bound credential are spread over them
ApplyAuth(own) ==
  /\ LET r == HeadersFor(currentAuth)
     IN resolution' = [made |-> TRUE, auth |-> currentAuth, threw |-> r.threw,
                       headers |-> Merge(r.headers, own), own |-> own]
  /\ UNCHANGED currentAuth

\* ------------------------------------------- HttpTestClient.setAuthToken
\* the tokens given to setAuthToken, without and with a colon
TokenInputs == {"t1", "u1:p1"}

TokenKinds == {"Bearer", "Basic", "ApiKey"}

\* token.split(':') on these tokens
SplitColon(t) == IF t = "u1:p1" THEN <<"u1", "p1">> ELSE <<t>>

\* setAuthToken: the credential it binds; "const [username, password]" leaves
\* password undefined when the token has no colon
TokenCredential(t, kind) ==
  IF kind = "Bearer" THEN [type |-> "bearer", token |-> t]
  ELSE IF kind = "Basic"
    THEN IF Len(SplitColon(t)) >= 2
           THEN [type |-> "basic", username |-> SplitColon(t)[1],
                 password |-> SplitColon(t)[2]]
           ELSE [type |-> "basic", username |-> SplitColon(t)[1]]
  ELSE [type |-> "apikey", key |-> t]

\* setAuthToken
SetAuthToken(t, kind) == SetAuth(TokenCredential(t, kind))

\* the headers a request's own config comes with
OwnHeaders == { NoHeaders, Header("Accept", <<"json">>) }

\* ------------------------------------ AuthenticationService.getOAuth2Headers
\* OAuth2Config.  The code tests its optional fields for truthiness only, so
\* "" stands for a field that is absent or empty.
OAuth2Inputs ==
  [type : {"oauth2"}, clientId : {"c1"}, accessToken : {"a1"},
   grantType : {"client_credentials", "refresh_token"}, refreshToken : {"r1"},
   tokenUrl : {"u1"}] \cup
  [type : {"oauth2"}, clientId : {"c1"}, accessToken : {""},
   grantType : {"", "client_credentials", "authorization_code", "refresh_token"},
   refreshToken : {"", "r1"}, tokenUrl : {"", "u1"}]

OAuth2RouteFetchFirst(cfg) ==
  IF cfg.grantType = "client_credentials" /\ cfg.tokenUrl # "" THEN "client_credentials"
  ELSE IF cfg.accessToken # "" THEN "accessToken"
  ELSE IF cfg.grantType = "refresh_token" /\ cfg.refreshToken # "" /\ cfg.tokenUrl # ""
    THEN "refresh_token"
  ELSE "none"

\* getOAuth2Headers: the order of its tests
OAuth2Route(cfg) ==
  IF cfg.accessToken # "" THEN "accessToken"
  ELSE IF cfg.grantType = "client_credentials" /\ cfg.tokenUrl # "" THEN "client_credentials"
  ELSE IF cfg.grantType = "refresh_token" /\ cfg.refreshToken # "" /\ cfg.tokenUrl # ""
    THEN "refresh_token"
  ELSE "none"

\* getOAuth2Headers up to its return, its throw or the token request it
\* awaits; fetchOAuth2Token is the one of AuthResolve.  fetches counts the
\* token requests of both kinds.
GetOAuth2Headers(c, cfg) ==
  /\ callers[c].pc = "idle"
  /\ LET route == OAuth2Route(cfg)
         k == CacheKey(cfg)
         base == [pc |-> "done", key |-> k, fetchNo |-> 0, token |-> 0,
                  viaCache |-> FALSE, cfg |-> cfg]
     IN CASE route = "accessToken" ->
               /\ callers' = [callers EXCEPT ![c] =
                    [base EXCEPT !.token = cfg.accessToken]]
               /\ UNCHANGED fetches
          [] route = "client_credentials" ->
               IF CacheHit(k)
                 THEN /\ callers' = [callers EXCEPT ![c] =
                           [base EXCEPT !.token = tokenCache[k].access_token,
                                        !.viaCache = TRUE]]
                      /\ UNCHANGED fetches
                 ELSE /\ fetches < MaxFetches
                      /\ fetches' = fetches + 1
                      /\ callers' = [callers EXCEPT ![c] =
                           [base EXCEPT !.pc = "fetching", !.fetchNo = fetches + 1]]
          [] route = "refresh_token" ->
               /\ fetches < MaxFetches
               /\ fetches' = fetches + 1
               /\ callers' = [callers EXCEPT ![c] =
                    [base EXCEPT !.pc = "refreshing", !.fetchNo = fetches + 1]]
          [] OTHER ->
               /\ callers' = [callers EXCEPT ![c] = [base EXCEPT !.pc = "failed"]]
               /\ UNCHANGED fetches
  /\ UNCHANGED <<tokenCache, tokenExpiryTimes, now, ticks>>

\* refreshOAuth2Token: the token endpoint answers; "return response.data"
RefreshReturns(c) ==
  /\ callers[c].pc = "refreshing"
  /\ callers' = [callers EXCEPT ![c] =
       [@ EXCEPT !.pc = "done", !.token = callers[c].fetchNo]]
  /\ UNCHANGED <<tokenCache, tokenExpiryTimes, now, ticks, fetches>>

\* refreshOAuth2Token: "OAuth2: Failed to refresh token"
RefreshFails(c) ==
  /\ callers[c].pc = "refreshing"
  /\ callers' = [callers EXCEPT ![c] = [@ EXCEPT !.pc = "failed"]]
  /\ UNCHANGED <<tokenCache, tokenExpiryTimes, now, ticks, fetches>>

\* applyAuth while an OAuth2 credential is bound: getAuthHeaders(currentAuth)
ApplyOAuth2(c) ==
  /\ currentAuth.type = "oauth2"
  /\ GetOAuth2Headers(c, currentAuth)

\* the credentials bound in turn: resolved at once, or by a token request
BindInputs ==
  BearerInputs \cup BasicInputs \cup
  {cfg \in OAuth2Inputs : cfg.accessToken = "" /\ cfg.refreshToken = ""
                          /\ cfg.grantType = "client_credentials"}

\* getOAuth2Headers: the headers it returns to a caller that is done
OAuth2Headers(r) == Header("Authorization", <<"Bearer", " ", r.token>>)

\* ------------------------------------------------------- ValidationService
\* An assertion, reduced to what decides its evaluation: its type, whether it
\* has a path, whether its pattern or path is well formed (a regular expression
\* for matches, a JSONPath for bodyJsonPath) and whether the comparison it
\* asks for holds of the response.  All of these pass AssertionSchema.
AssertionInputs ==
  [type : {"status"}, hasPath : {FALSE}, valid : {TRUE}, holds : BOOLEAN] \cup
  [type : {"header"}, hasPath : BOOLEAN, valid : {TRUE}, holds : {TRUE}] \cup
  [type : {"bodyJson"}, hasPath : {FALSE}, valid : {TRUE}, holds : {TRUE}] \cup
  [type : {"bodyJsonPath"}, hasPath : {TRUE}, valid : {FALSE}, holds : {FALSE}] \cup
  [type : {"responseTime"}, hasPath : {FALSE}, valid : {TRUE}, holds : {TRUE}] \cup
  [type : {"matches"}, hasPath : {FALSE}, valid : BOOLEAN, holds : {TRUE}]

\* the assertions a validate* method can be called with directly: the method
\* takes the path as an argument, and there is no method for bodyJson
DirectInputs == {a \in AssertionInputs : a.type # "bodyJson" /\ (a.type = "header" => a.hasPath)}

\* the response, reduced to whether response.metrics.duration is truthy
ResponseInputs == [hasDuration : BOOLEAN]

AssertionLists == UNION { [1..n -> AssertionInputs] : n \in 0..MaxAssertions }

\* validateAssertions: the cases of the switch that call no validate* method
Skipped(a, resp) ==
  \/ a.type \in {"header", "bodyJsonPath"} /\ ~a.hasPath
  \/ a.type = "responseTime" /\ ~resp.hasDuration
  \/ a.type = "bodyJson"

\* validateMatches: new RegExp(pattern) throws for an invalid pattern;
\* validateJsonPath catches the error of jsonpath.query
Throws(a) == a.type = "matches" /\ ~a.valid

\* the ValidationResult a validate* method pushes
ResultFor(a) ==
  [passed |-> a.valid /\ a.holds, assertion |-> a, hasError |-> ~(a.valid /\ a.holds)]

\* validateAssertions: the for loop
RECURSIVE Evaluate(_, _, _)
Evaluate(as, resp, acc) ==
  IF as = <<>>
    THEN [results |-> acc, threw |-> FALSE]
    ELSE LET a == Head(as)
         IN IF Skipped(a, resp) THEN Evaluate(Tail(as), resp, acc)
            ELSE IF Throws(a) THEN [results |-> acc, threw |-> TRUE]
            ELSE Evaluate(Tail(as), resp, Append(acc, ResultFor(a)))

NoValReport == [made |-> FALSE]
NoValInput == [given |-> FALSE]

\* mutant of ValReport: overallPassed when some assertion passed
ValReportSomePassed(rs) ==
  [ made             |-> TRUE,
    totalAssertions  |-> Len(rs),
    passedAssertions |-> Cardinality({k \in 1..Len(rs) : rs[k].passed}),
    failedAssertions |-> Cardinality({k \in 1..Len(rs) : ~rs[k].passed}),
    results          |-> rs,
    overallPassed    |-> Cardinality({k \in 1..Len(rs) : rs[k].passed}) > 0 ]

\* getReport
ValReport(rs) ==
  [ made             |-> TRUE,
    totalAssertions  |-> Len(rs),
    passedAssertions |-> Cardinality({k \in 1..Len(rs) : rs[k].passed}),
    failedAssertions |-> Cardinality({k \in 1..Len(rs) : ~rs[k].passed}),
    results          |-> rs,
    overallPassed    |-> Cardinality({k \in 1..Len(rs) : ~rs[k].passed}) = 0 ]

\* the constructor calls reset()
ValIdle ==
  /\ vResults = <<>>
  /\ vReport = NoValReport
  /\ vThrew = FALSE
  /\ vInput = NoValInput

\* validateAssertions: reset(), the loop, getReport()
\* mutant of FreshResults: the earlier results kept
FreshResultsKeepsOld(rs) == rs

\* reset: this.results = []
FreshResults(rs) == <<>>

\* validateAssertions: reset(), the for loop, getReport()
ValidateAssertions(resp, as) ==
  LET e == Evaluate(as, resp, FreshResults(vResults))
  IN /\ vResults' = e.results
     /\ vThrew' = e.threw
     /\ vReport' = IF e.threw THEN NoValReport ELSE ValReport(e.results)
     /\ vInput' = [given |-> TRUE, response |-> resp, assertions |-> as]

\* a validate* method called directly
ValidateOne(a) ==
  /\ Len(vResults) < MaxResults
  /\ IF Throws(a)
       THEN vThrew' = TRUE /\ UNCHANGED vResults
       ELSE vThrew' = FALSE /\ vResults' = Append(vResults, ResultFor(a))
  /\ vReport' = NoValReport
  /\ vInput' = NoValInput

\* reset
Reset ==
  /\ vResults' = <<>>
  /\ vThrew' = FALSE
  /\ vReport' = NoValReport
  /\ vInput' = NoValInput

\* getReport called directly
GetReport ==
  /\ vReport' = ValReport(vResults)
  /\ vThrew' = FALSE
  /\ vInput' = NoValInput
  /\ UNCHANGED vResults

\* ------------------------------------------------- TestWithAssertions
\* new HttpTestClient(config) with a config without auth: no credential
\* bound, no default header
NewClient == [auth |-> NoAuth, defaults |-> NoHeaders]

\* the auth of TestWithAssertionsSchema: a type, every other field optional
TwaAuthInputs ==
  { [type |-> "bearer", token |-> "t1"], [type |-> "bearer"],
    [type |-> "basic", username |-> "u1", password |-> "p1"],
    [type |-> "apikey", key |-> "k1"],
    [type |-> "apikey", key |-> "k1", keyName |-> "X-Key"] }

TwaInputs == { [url |-> "u"] } \cup [url : {"u"}, auth : TwaAuthInputs]

\* configureAuth, on the client c
ConfigureAuth(c, auth) ==
  IF auth.type = "bearer"
    THEN IF "token" \in DOMAIN auth
           THEN [c EXCEPT !.auth = TokenCredential(auth.token, "Bearer")]
           ELSE c
  ELSE IF auth.type = "basic"
    THEN IF "username" \in DOMAIN auth /\ "password" \in DOMAIN auth
           THEN [c EXCEPT !.auth = TokenCredential("base64", "Basic")]
           ELSE c
  ELSE IF "key" \in DOMAIN auth
    THEN [c EXCEPT !.defaults =
            Merge(Header(Opt(auth, "keyName", "X-API-Key"), <<auth.key>>), @)]
    ELSE c

\* mutant of ClientOfRequest: the request sent by the client configured
ClientOfRequestConfigured(old, new) == old

\* execute: "this.httpClient = new HttpTestClient({...})" comes after
\* configureAuth and before executeRequest: of the client old, which was
\* configured, and the client new, the request is sent by the new one
ClientOfRequest(old, new) == new

\* the headers of a request of client c: the client's default headers, and
\* over them what the request interceptor's applyAuth adds
RequestHeaders(c) == Merge(HeadersFor(c.auth).headers, c.defaults)

MaxExecutes == 3

\* execute up to the await of the request
TwaExecute(input) ==
  /\ twa.pc = "idle"
  /\ Len(twa.sent) < MaxExecutes
  /\ LET old == IF "auth" \in DOMAIN input
                  THEN ConfigureAuth(twa.client, input.auth)
                  ELSE twa.client
         c == ClientOfRequest(old, NewClient)
     IN twa' = [pc |-> "request", client |-> c, input |-> input,
                sent |-> Append(twa.sent, RequestHeaders(c)),
                success |-> twa.success]
  /\ UNCHANGED <<mgrs, cm>>

\* execute after the request: these inputs carry no assertions, so the
\* result's success is that of the request
TwaReturns(o) ==
  /\ twa.pc = "request"
  /\ twa' = [twa EXCEPT !.pc = "idle", !.success = Append(@, o = "ok")]
  /\ UNCHANGED <<mgrs, cm>>

TwaIdle ==
  twa = [pc |-> "idle", client |-> NewClient, input |-> [url |-> "u"],
         sent |-> <<>>, success |-> <<>>]

\* ------------------------------------------------------- SessionManager
\* session ids; "" is a string like any other for the Map, and falsy for
\* clearSession
SessionIds == {"", "s1"}

CookieInputs == {"a=1", "a=1; b=2"}

\* parseCookies: the name=value pairs between the semicolons
ParseCookies(str) ==
  IF str = "a=1" THEN <<[name |-> "a", value |-> "1"]>>
  ELSE <<[name |-> "a", value |-> "1"], [name |-> "b", value |-> "2"]>>

\* currentSessionId: null is <<>>, the id s is <<s>>
NoSession == <<>>

NoCall == [op |-> "none"]

\* new SessionManager(); last is the call of setCurrentSession, if that was
\* the call made last on the object (history)
NewSessionManager == [sessions |-> <<>>, currentSessionId |-> NoSession, last |-> NoCall]

\* a call of method op with argument id, made on the manager in state m,
\* that threw or did not
Call(op, id, m, threw) ==
  [op |-> op, id |-> id, threw |-> threw,
   before |-> [sessions |-> m.sessions, currentSessionId |-> m.currentSessionId]]

\* Map.set
MapSet(map, k, v) == [x \in DOMAIN map \cup {k} |-> IF x = k THEN v ELSE map[x]]

\* Map.delete
MapDelete(map, k) == [x \in DOMAIN map \ {k} |-> map[x]]

MaxManagers == 2

\* storeSession
StoreSession(i, id, str) ==
  /\ mgrs' = [mgrs EXCEPT ![i] =
       [sessions |-> MapSet(@.sessions, id, ParseCookies(str)),
        currentSessionId |-> <<id>>,
        last |-> NoCall]]
  /\ UNCHANGED <<twa, cm>>

\* setCurrentSession
SetCurrentSession(i, id) ==
  /\ mgrs' = [mgrs EXCEPT ![i] =
       IF id \in DOMAIN @.sessions
         THEN [@ EXCEPT !.currentSessionId = <<id>>,
                        !.last = Call("setCurrentSession", id, mgrs[i], FALSE)]
         ELSE [@ EXCEPT !.last = Call("setCurrentSession", id, mgrs[i], TRUE)]]
  /\ UNCHANGED <<twa, cm>>

\* mutant of CurrentAfterDelete: the current id kept
CurrentAfterDeleteKept(cur, id) == cur

\* clearSession(sessionId): if (this.currentSessionId === sessionId) ... = null
CurrentAfterDelete(cur, id) == IF cur = <<id>> THEN NoSession ELSE cur

\* clearSession; arg is <<>> for a call without argument
ClearSession(i, arg) ==
  /\ mgrs' = [mgrs EXCEPT ![i] =
       IF arg # <<>> /\ arg[1] # ""
         THEN [sessions |-> MapDelete(@.sessions, arg[1]),
               currentSessionId |-> CurrentAfterDelete(@.currentSessionId, arg[1]),
               last |-> NoCall]
         ELSE [sessions |-> <<>>,
               currentSessionId |-> NoSession,
               last |-> NoCall]]
  /\ UNCHANGED <<twa, cm>>

\* clone: a new manager with copies of the sessions and the same current id
Clone(i) ==
  /\ Len(mgrs) < MaxManagers
  /\ mgrs' = Append(mgrs, [sessions |-> mgrs[i].sessions,
                           currentSessionId |-> mgrs[i].currentSessionId,
                           last |-> NoCall])
  /\ UNCHANGED <<twa, cm>>

\* ------------------------------------------- ConfigManager, set_environment
EnvNames == {"dev", "prod"}

\* EnvironmentConfig: baseURL, and auth or none; their strings hold no ${...}
\* variable, so substituteVariables leaves them as they are
EnvInputs ==
  { [baseURL |-> "d"],
    [baseURL |-> "d", auth |-> [type |-> "bearer", token |-> "t1"]],
    [baseURL |-> "p", auth |-> [type |-> "apikey", key |-> "k1"]] }

\* ConfigFile: environments by name, and defaults or none
ConfigFiles ==
  [environments : [EnvNames -> EnvInputs] \cup [{"dev"} -> EnvInputs]] \cup
  [environments : [{"dev"} -> EnvInputs], defaults : {[timeout |-> 5000]}]

\* null is <<>>, the value v is <<v>>
NoValue == <<>>

\* new ConfigManager(), beside the shared client's baseURL; last is the
\* set_environment call made last (history)
NewConfigManager ==
  [configFile |-> NoValue, currentEnvironment |-> NoValue,
   resolvedConfig |-> NoValue, baseURL |-> NoValue, last |-> NoCall]

\* resolveConfig: {...defaults, ...envConfig}
ResolveConfig(file, environment) ==
  Merge(file.environments[environment], Opt(file, "defaults", <<>>))

\* ConfigManager.setEnvironment does not throw
EnvironmentFound(c, environment) ==
  /\ c.configFile # NoValue
  /\ environment \in DOMAIN c.configFile[1].environments

\* ConfigManager.setEnvironment, when it does not throw
SetEnvironment(c, environment) ==
  [c EXCEPT !.currentEnvironment = <<environment>>,
            !.resolvedConfig = <<ResolveConfig(c.configFile[1], environment)>>]

\* "Apply configuration to HTTP client": exportForHttpClient, then setBaseURL
\* and setAuth, each under its if
ApplyToClient(c) ==
  LET httpConfig == c.resolvedConfig[1]
  IN /\ cm' = [c EXCEPT !.baseURL =
                 IF "baseURL" \in DOMAIN httpConfig THEN <<httpConfig.baseURL>> ELSE @]
     /\ IF "auth" \in DOMAIN httpConfig
          THEN currentAuth' = httpConfig.auth
          ELSE UNCHANGED currentAuth

\* handleSetEnvironment
HandleSetEnvironment(environment) ==
  LET call(ok) == [op |-> "set_environment", environment |-> environment,
                   success |-> ok,
                   before |-> [currentEnvironment |-> cm.currentEnvironment,
                               auth |-> currentAuth, baseURL |-> cm.baseURL]]
  IN /\ IF EnvironmentFound(cm, environment)
          THEN ApplyToClient([SetEnvironment(cm, environment) EXCEPT !.last = call(TRUE)])
          ELSE cm' = [cm EXCEPT !.last = call(FALSE)] /\ UNCHANGED currentAuth
     /\ UNCHANGED <<twa, mgrs, resolution>>

\* handleLoadConfig: the file is loaded, and the environment, if one is
\* given (arg = <<environment>>) and found, is set and applied
HandleLoadConfig(file, arg) ==
  LET loaded == [cm EXCEPT !.configFile = <<file>>, !.last = NoCall]
  IN /\ IF arg # NoValue /\ EnvironmentFound(loaded, arg[1])
          THEN ApplyToClient(SetEnvironment(loaded, arg[1]))
          ELSE cm' = loaded /\ UNCHANGED currentAuth
     /\ UNCHANGED <<twa, mgrs, resolution>>

ToolsIdle == TwaIdle /\ mgrs = <<NewSessionManager>> /\ cm = NewConfigManager

notTools == <<batchVars, httpVars, authVars, valVars, credVars, ctxVars>>

\* executeTest: what a test that has not started holds
NoTestAuth == [pend |-> "none", previousAuth |-> NoAuth, sent |-> <<>>]

NoSummary == [made |-> FALSE]

CtxIdle ==
  /\ testAuth = [t \in 1..NumTests |-> NoTestAuth]
  /\ testSummary = [t \in 1..NumTests |-> NoSummary]
  /\ priorAbort = FALSE
  /\ ToolsIdle

Init ==
  /\ clientCfg \in ClientConfigs
  /\ BatchIdle /\ HttpIdle /\ AuthIdle /\ ValIdle /\ CtxIdle

InitHttp ==
  /\ clientCfg \in HttpClientConfigs
  /\ BatchIdle /\ HttpIdle /\ AuthIdle /\ ValIdle /\ CtxIdle

InitAuth ==
  /\ clientCfg = ClientConfig(<<>>)
  /\ BatchIdle /\ HttpIdle /\ AuthIdle /\ ValIdle /\ CtxIdle
\* ------------------------------------------------------------ executeBatch
\* mutant of FreshSignal: the signal of the call before kept
FreshSignalKeepsAbort(a) == a

\* this.abortController = new AbortController(): signal.aborted of the new
\* controller, a being that of the controller before
FreshSignal(a) == FALSE

\* executeBatch up to the call of executeSequential / executeParallel; a
\* schema's parse throws before anything else is done
ExecuteBatch(ts, o) ==
  /\ mainPc = "idle"
  /\ IF (\A k \in DOMAIN ts : ValidTest(ts[k])) /\ ValidOptions(o)
       THEN /\ opts' = WithDefaults(o)
            /\ tests' = ts
            /\ results' = <<>>
            /\ stopped' = FALSE
            /\ ctrl' = TRUE
            /\ aborted' = FreshSignal(aborted)
            /\ idx' = 1
            /\ queue' = [k \in 1..Len(ts) |-> k]
            /\ executing' = {}
            /\ mainPc' = IF opts'.parallel THEN "parTop" ELSE "seqTop"
       ELSE /\ mainPc' = "rejected"
            /\ UNCHANGED <<opts, tests, results, stopped, ctrl, aborted, idx,
                           queue, executing>>
  /\ UNCHANGED <<clientCfg, tst, extAbort, report>>

\* a quotient of two integers, kept as the pair it is computed from
Ratio(n, d) == [num |-> n, den |-> d]

\* mutant of SuccessRate: the rate taken over the failed tests
SuccessRateOfFailed(rs) ==
  IF Len(rs) > 0
    THEN Ratio(Cardinality({k \in 1..Len(rs) : ~rs[k].success}) * 100, Len(rs))
    ELSE Ratio(0, 1)

\* generateReport: summary.successRate
SuccessRate(rs) ==
  IF Len(rs) > 0
    THEN Ratio(Cardinality({k \in 1..Len(rs) : rs[k].success}) * 100, Len(rs))
    ELSE Ratio(0, 1)

\* generateReport: "Calculate assertion totals", the forEach over results
RECURSIVE AssertionTotal(_, _)
AssertionTotal(rs, f) ==
  IF rs = <<>>
    THEN 0
    ELSE (IF "assertionResults" \in DOMAIN Head(rs)
            THEN Head(rs).assertionResults[f] ELSE 0)
         + AssertionTotal(Tail(rs), f)

\* generateReport: summary; the totals are spread in only if totalAssertions > 0
Summary(rs) ==
  Merge([successRate |-> SuccessRate(rs)],
        IF AssertionTotal(rs, "total") > 0
          THEN [totalAssertions  |-> AssertionTotal(rs, "total"),
                passedAssertions |-> AssertionTotal(rs, "passed"),
                failedAssertions |-> AssertionTotal(rs, "failed")]
          ELSE <<>>)

\* generateReport
GenerateReport(rs, stop) ==
  [ made            |-> TRUE,
    totalTests      |-> Len(rs),
    successfulTests |-> Cardinality({k \in 1..Len(rs) : rs[k].success}),
    failedTests     |-> Cardinality({k \in 1..Len(rs) : ~rs[k].success}),
    results         |-> rs,
    summary         |-> Summary(rs),
    stopped         |-> stop ]

\* the results a batch can have collected when generateReport is called: a
\* failed test has no assertionResults, a successful one has them if it had
\* assertions; total = passed + failed as in a ValidationReport
AssertionSummaries ==
  { [total |-> 0, passed |-> 0, failed |-> 0],
    [total |-> 2, passed |-> 2, failed |-> 0],
    [total |-> 2, passed |-> 1, failed |-> 1] }

ResultInputs(k) ==
  { [name |-> k, success |-> FALSE, outcome |-> "server5xx"],
    [name |-> k, success |-> TRUE, outcome |-> "ok"] } \cup
  { [name |-> k, success |-> TRUE, outcome |-> "ok", assertionResults |-> a] :
      a \in AssertionSummaries }

ResultLists ==
  UNION { { l \in [1..n -> UNION { ResultInputs(k) : k \in 1..n }] :
              \A k \in 1..n : l[k].name = k } : n \in 0..NumTests }

\* executeBatch at the call of generateReport
InitReport ==
  /\ clientCfg = ClientConfig(<<>>)
  /\ opts = WithDefaults(<<>>)
  /\ tests = <<>>
  /\ mainPc = "report"
  /\ idx = 1
  /\ queue = <<>>
  /\ executing = {}
  /\ tst = [t \in 1..NumTests |-> PendingTest]
  /\ results \in ResultLists
  /\ stopped \in BOOLEAN
  /\ ctrl = TRUE
  /\ aborted = FALSE
  /\ extAbort = FALSE
  /\ report = NoReport
  /\ HttpIdle /\ AuthIdle /\ ValIdle /\ CtxIdle

\* executeBatch: finally { abortController = null }, then generateReport
Return ==
  /\ mainPc = "report"
  /\ ctrl' = FALSE
  /\ report' = GenerateReport(results, stopped)
  /\ mainPc' = "returned"
  /\ UNCHANGED <<clientCfg, opts, tests, idx, queue, executing, tst, results,
                 stopped, aborted, extAbort>>

\* abort(), called from outside while a batch is running
Abort ==
  /\ MainSuspended
  /\ BatchRunning
  /\ ctrl
  /\ ~aborted
  /\ aborted' = TRUE
  /\ extAbort' = TRUE
  /\ UNCHANGED <<clientCfg, opts, tests, mainPc, idx, queue, executing, tst,
                 results, stopped, ctrl, report>>

\* -------------------------------------------------------- executeSequential
\* mutant of SeqStops: the stop check left out
SeqStopsNever(success) == FALSE

\* "Check stop on failure"
SeqStops(success) == opts.stopOnFailure /\ ~success

\* "Check if aborted" at the top of the for loop
SeqBreaks == aborted

\* the for loop from its head to its first await
SeqLoop ==
  /\ mainPc = "seqTop"
  /\ IF idx > Len(tests) \/ SeqBreaks
       THEN /\ mainPc' = "report"
            /\ UNCHANGED tst
       ELSE IF idx > 1 /\ opts.delayBetween > 0
         THEN /\ mainPc' = "seqDelayBetween"
              /\ UNCHANGED tst
         ELSE IF TestDelay(tests[idx]) > 0
           THEN /\ mainPc' = "seqTestDelay"
                /\ UNCHANGED tst
           ELSE /\ mainPc' = "seqExec"
                /\ tst' = [tst EXCEPT ![idx] = StartedTest]
  /\ UNCHANGED <<clientCfg, opts, tests, idx, queue, executing, results,
                 stopped, ctrl, aborted, extAbort, report>>

\* delay(options.delayBetween) expires
SeqDelayBetweenFires ==
  /\ mainPc = "seqDelayBetween"
  /\ IF TestDelay(tests[idx]) > 0
       THEN /\ mainPc' = "seqTestDelay"
            /\ UNCHANGED tst
       ELSE /\ mainPc' = "seqExec"
            /\ tst' = [tst EXCEPT ![idx] = StartedTest]
  /\ UNCHANGED <<clientCfg, opts, tests, idx, queue, executing, results,
                 stopped, ctrl, aborted, extAbort, report>>

\* delay(test.delay) expires
SeqTestDelayFires ==
  /\ mainPc = "seqTestDelay"
  /\ mainPc' = "seqExec"
  /\ tst' = [tst EXCEPT ![idx] = StartedTest]
  /\ UNCHANGED <<clientCfg, opts, tests, idx, queue, executing, results,
                 stopped, ctrl, aborted, extAbort, report>>

\* ---------------------------------------------------------- executeParallel
\* mutant of CanAdmit: the limit test off by one
CanAdmitOffByOne == Cardinality(executing) <= opts.maxConcurrent /\ queue # <<>>

\* the inner while's condition
CanAdmit == Cardinality(executing) < opts.maxConcurrent /\ queue # <<>>

\* "Check if aborted" at the top of the outer while
ParBreaks == aborted

\* the outer while: its condition and the abort check
ParLoop ==
  /\ mainPc = "parTop"
  /\ mainPc' = IF queue = <<>> /\ executing = {} THEN "report"
               ELSE IF ParBreaks
                 THEN (IF executing = {} THEN "report" ELSE "parAll")
                 ELSE "parInner"
  /\ UNCHANGED <<clientCfg, opts, tests, idx, queue, executing, tst, results,
                 stopped, ctrl, aborted, extAbort, report>>

\* the inner while, one iteration, or its exit to Promise.race
ParAdmit ==
  /\ mainPc = "parInner"
  /\ IF CanAdmit
       THEN /\ queue' = Tail(queue)
            /\ tst' = [tst EXCEPT ![Head(queue)] = StartedTest]
            /\ executing' = executing \cup {Head(queue)}
            /\ mainPc' = IF opts.delayBetween > 0 /\ queue' # <<>>
                           THEN "parDelay" ELSE "parInner"
       ELSE /\ mainPc' = IF executing # {} THEN "parRace" ELSE "parTop"
            /\ UNCHANGED <<queue, tst, executing>>
  /\ UNCHANGED <<clientCfg, opts, tests, idx, results, stopped, ctrl, aborted,
                 extAbort, report>>

\* delay(options.delayBetween) expires inside the inner while
ParDelayFires ==
  /\ mainPc = "parDelay"
  /\ mainPc' = "parInner"
  /\ UNCHANGED <<clientCfg, opts, tests, idx, queue, executing, tst, results,
                 stopped, ctrl, aborted, extAbort, report>>

\* -------------------------------------------------------------- executeTest
\* "Don't retry on abort", then "Check if we should retry"
OrchRetries(attempts) == ~aborted /\ attempts < MaxAttempts(opts)

\* mutant of ParAborts: every failure aborts the batch
ParAbortsOnAnyFailure(success) == ~success

\* the .then handlers of executeParallel: "Check stop on failure"
ParAborts(success) == opts.stopOnFailure /\ ~success

\* mutant of TestResult: a cancelled test not counted as failed
TestResultCanceledOk(t, success, o) ==
  [name |-> t, success |-> (success \/ o = Canceled), outcome |-> o]

TestResult(t, success, o) == [name |-> t, success |-> success, outcome |-> o]

\* mutant of AfterSettle: Promise.race never resolves
AfterSettleAllOnly(pc, ex) ==
  IF pc = "parAll" /\ ex = {} THEN "report" ELSE pc

\* executeParallel: a promise of executing settles: `await Promise.race(executing)`
\* resumes the loop; `await Promise.all(executing)` resumes when ex, what is
\* left in flight, is empty
AfterSettle(pc, ex) ==
  IF pc = "parRace" THEN "parTop"
  ELSE IF pc = "parAll" /\ ex = {} THEN "report"
  ELSE pc

\* mutant of Push: the result pushed twice
PushTwice(rs, r) == Append(Append(rs, r), r)

\* results.push(result)
Push(rs, r) == Append(rs, r)

\* executeTest returns; its caller's continuation runs in the same task:
\* sequential: results.push, the stop check, i++;
\* parallel: results.push, the stop check (abort), the splice from executing,
\* and the wake-up of Promise.race / Promise.all.
Finish(t, success, o) ==
  /\ tst' = [tst EXCEPT ![t] = [@ EXCEPT !.pc = "done", !.retryCount = 0]]
  /\ results' = Push(results, TestResult(t, success, o))
  /\ IF opts.parallel
       THEN /\ aborted' = (aborted \/ (ctrl /\ ParAborts(success)))
            /\ executing' = executing \ {t}
            /\ mainPc' = AfterSettle(mainPc, executing')
            /\ UNCHANGED <<idx, stopped>>
       ELSE /\ IF SeqStops(success)
                 THEN stopped' = TRUE /\ mainPc' = "report" /\ UNCHANGED idx
                 ELSE idx' = idx + 1 /\ mainPc' = "seqTop" /\ UNCHANGED stopped
            /\ UNCHANGED <<aborted, executing>>

\* mutant of AttemptOutcomes: the signal not handed to the request
AttemptOutcomesNoSignal == HttpOutcomes

\* executeTest: config.signal = this.abortController.signal: a request whose
\* signal is aborted ends with the cancellation error, whatever the server did
AttemptOutcomes == IF aborted THEN {Canceled} ELSE HttpOutcomes

\* One HTTP attempt of test t ends with outcome o.  The response interceptors
\* of HttpTestClient run, then the continuation of executeTest.
HttpDone(t, o) ==
  /\ MainSuspended
  /\ BatchRunning
  /\ tst[t].pc = "http"
  /\ o \in AttemptOutcomes
  /\ IF o = "ok"
       THEN Finish(t, TRUE, o)
       ELSE IF ClientRetries(tst[t].retryCount, clientCfg.retryAttempts, o)
         THEN /\ tst' = [tst EXCEPT ![t] =
                   [@ EXCEPT !.pc = "clientBackoff",
                             !.retryCount = @ + 1,
                             !.wait = ClientRetryDelay(clientCfg.retryDelay, tst[t].retryCount),
                             !.last = o]]
              /\ UNCHANGED <<mainPc, idx, executing, results, stopped, aborted>>
         ELSE IF OrchRetries(tst[t].attempts)
           THEN /\ tst' = [tst EXCEPT ![t] =
                     [@ EXCEPT !.pc = "orchBackoff",
                               !.wait = OrchBackoff(tst[t].attempts),
                               !.last = o]]
                /\ UNCHANGED <<mainPc, idx, executing, results, stopped, aborted>>
           ELSE Finish(t, FALSE, o)
  /\ UNCHANGED <<clientCfg, opts, tests, queue, ctrl, extAbort, report>>

\* the client's retry delay expires: this.client.request(config)
ClientBackoffFires(t) ==
  /\ MainSuspended
  /\ tst[t].pc = "clientBackoff"
  /\ tst' = [tst EXCEPT ![t] = [@ EXCEPT !.pc = "http", !.wait = 0, !.last = "none"]]
  /\ UNCHANGED <<clientCfg, opts, tests, mainPc, idx, queue, executing, results,
                 stopped, ctrl, aborted, extAbort, report>>

\* delay(1000 * attempts) expires: the next try, with a request of its own
OrchBackoffFires(t) ==
  /\ MainSuspended
  /\ tst[t].pc = "orchBackoff"
  /\ tst' = [tst EXCEPT ![t] =
       [@ EXCEPT !.pc = "http", !.attempts = @ + 1, !.retryCount = 0,
                 !.wait = 0, !.last = "none"]]
  /\ UNCHANGED <<clientCfg, opts, tests, mainPc, idx, queue, executing, results,
                 stopped, ctrl, aborted, extAbort, report>>

TestStep ==
  \E t \in 1..NumTests :
    \/ \E o \in HttpOutcomes \cup {Canceled} : HttpDone(t, o)
    \/ ClientBackoffFires(t)
    \/ OrchBackoffFires(t)

\* ---------------------------------------- executeTest: the test's own auth
\* the credentials tests carry: one resolved at once, and a
\* client_credentials one that needs a token
TestCredentials ==
  { [type |-> "bearer", token |-> "t1"],
    [type |-> "oauth2", clientId |-> "c1", accessToken |-> "",
     grantType |-> "client_credentials", refreshToken |-> "", tokenUrl |-> "u1"] }

\* BatchTestRequest with and without auth
AuthTestInputs ==
  { [name |-> "t", url |-> "u"] } \cup
  [name : {"t"}, url : {"u"}, auth : TestCredentials]

AuthTestLists == UNION { [1..n -> AuthTestInputs] : n \in 1..NumTests }

AuthBatchInputs ==
  { Merge([parallel |-> p, maxConcurrent |-> m, delayBetween |-> d], r) :
      p \in BOOLEAN, m \in ConcurrencyChoices, d \in DelayChoices,
      r \in RetryInputs(ParRetryChoices) }

\* "if (test.auth)"
HasAuth(t) == "auth" \in DOMAIN tests[t]

\* No continuation is waiting in the microtask queue.  axios runs the request
\* interceptors in a promise chain, so applyAuth runs after the synchronous
\* code that issued the request has yielded and before any timer or response.
NoMicrotask == \A t \in 1..NumTests : testAuth[t].pend # "intercept"

\* What a step of the batch does to the client's credential.  A test that
\* starts saves getAuth() and binds its own auth ("Set authentication if
\* provided"); every request it issues passes the request interceptor; when
\* it ends, the finally block binds previousAuth again, or calls
\* clearAuthToken() when there was none.
ExecuteTestAuth ==
  LET started == {t \in 1..NumTests : tst[t].pc = "pending" /\ tst'[t].pc = "http"}
      reissued == {t \in 1..NumTests :
                     tst[t].pc \in {"clientBackoff", "orchBackoff"}
                     /\ tst'[t].pc = "http"}
      ended == {t \in 1..NumTests : tst[t].pc # "done" /\ tst'[t].pc = "done"}
  IN /\ testAuth' =
          [t \in 1..NumTests |->
             IF t \in started
               THEN [pend |-> "intercept",
                     previousAuth |-> IF HasAuth(t) THEN GetAuth ELSE NoAuth,
                     sent |-> <<>>]
             ELSE IF t \in reissued THEN [testAuth[t] EXCEPT !.pend = "intercept"]
             ELSE testAuth[t]]
     /\ IF \E t \in started : HasAuth(t)
          THEN /\ currentAuth' = tests[CHOOSE t \in started : HasAuth(t)].auth
               /\ UNCHANGED <<tokenCache, tokenExpiryTimes>>
          ELSE IF \E t \in ended : HasAuth(t)
            THEN LET previousAuth ==
                       testAuth[CHOOSE t \in ended : HasAuth(t)].previousAuth
                 IN IF previousAuth # NoAuth
                      THEN /\ currentAuth' = previousAuth
                           /\ UNCHANGED <<tokenCache, tokenExpiryTimes>>
                      ELSE /\ currentAuth' = NoAuth
                           /\ tokenCache' = <<>>
                           /\ tokenExpiryTimes' = <<>>
            ELSE UNCHANGED <<currentAuth, tokenCache, tokenExpiryTimes>>

\* The request interceptor of a request of test t: applyAuth reads the
\* credential bound at this moment.  A client_credentials credential without
\* a valid cached token sends the token request first.
Intercept(t) ==
  /\ MainSuspended
  /\ testAuth[t].pend = "intercept"
  /\ IF /\ currentAuth.type = "oauth2"
        /\ OAuth2Route(currentAuth) = "client_credentials"
        /\ ~CacheHit(CacheKey(currentAuth))
       THEN /\ fetches < MaxFetches
            /\ fetches' = fetches + 1
            /\ testAuth' = [testAuth EXCEPT ![t] =
                 [@ EXCEPT !.pend = "fetching", !.sent = Append(@, currentAuth)]]
       ELSE /\ testAuth' = [testAuth EXCEPT ![t] =
                 [@ EXCEPT !.pend = "none", !.sent = Append(@, currentAuth)]]
            /\ UNCHANGED fetches
  /\ UNCHANGED <<currentAuth, tokenCache, tokenExpiryTimes, now, ticks, callers>>

\* the token endpoint answers the interceptor of test t: the token is cached
\* and the request goes out
TokenReturns(t, e) ==
  /\ testAuth[t].pend = "fetching"
  /\ NoMicrotask
  /\ LET cfg == testAuth[t].sent[Len(testAuth[t].sent)]
         k == CacheKey(cfg)
         response == [access_token |-> fetches, expires_in |-> e]
     IN /\ tokenCache' = Put(tokenCache, k, response)
        /\ tokenExpiryTimes' = Put(tokenExpiryTimes, k, ExpiryTime(now, e))
  /\ testAuth' = [testAuth EXCEPT ![t] = [@ EXCEPT !.pend = "none"]]
  /\ UNCHANGED <<currentAuth, now, ticks, fetches, callers>>

\* what the batch steps leave alone beside the credential
notBatchAuth == <<httpVars, valVars, resolution, testSummary, priorAbort, toolVars, now, ticks, fetches,
                  callers>>

\* batches whose tests carry credentials, run through a client built with its
\* defaults (no retries of its own)
NextBatchAuth ==
  \/ mainPc = "idle" /\ \E ts \in AuthTestLists, o \in AuthBatchInputs :
       ExecuteBatch(ts, o) /\ UNCHANGED notBatch
  \/ SeqLoop /\ ExecuteTestAuth /\ UNCHANGED notBatchAuth
  \/ NoMicrotask /\ SeqDelayBetweenFires /\ ExecuteTestAuth /\ UNCHANGED notBatchAuth
  \/ ParLoop /\ ExecuteTestAuth /\ UNCHANGED notBatchAuth
  \/ ParAdmit /\ ExecuteTestAuth /\ UNCHANGED notBatchAuth
  \/ NoMicrotask /\ ParDelayFires /\ ExecuteTestAuth /\ UNCHANGED notBatchAuth
  \/ \E t \in 1..NumTests, o \in HttpOutcomes :
       /\ NoMicrotask /\ testAuth[t].pend = "none"
       /\ HttpDone(t, o) /\ ExecuteTestAuth /\ UNCHANGED notBatchAuth
  \/ \E t \in 1..NumTests :
       /\ NoMicrotask
       /\ OrchBackoffFires(t) /\ ExecuteTestAuth /\ UNCHANGED notBatchAuth
  \/ \E t \in 1..NumTests :
       Intercept(t) /\ UNCHANGED <<batchVars, httpVars, valVars, resolution, testSummary, priorAbort, toolVars>>
  \/ \E t \in 1..NumTests, e \in ExpiresInChoices :
       TokenReturns(t, e)
         /\ UNCHANGED <<batchVars, httpVars, valVars, resolution, testSummary, priorAbort, toolVars>>
  \/ Return /\ UNCHANGED notBatch

SpecBatchAuth == InitAuth /\ [][NextBatchAuth]_vars

\* ------------------------------------------- executeTest: "Run assertions"
\* the assertion lists tests carry: one that passes, a mixed one, one with an
\* assertion that is skipped, one whose evaluation throws
TestAssertions ==
  LET status(h) == [type |-> "status", hasPath |-> FALSE, valid |-> TRUE, holds |-> h]
      bodyJson == [type |-> "bodyJson", hasPath |-> FALSE, valid |-> TRUE, holds |-> TRUE]
      badRegex == [type |-> "matches", hasPath |-> FALSE, valid |-> FALSE, holds |-> TRUE]
  IN { <<status(TRUE)>>, <<status(FALSE), status(TRUE)>>,
       <<bodyJson, status(FALSE)>>, <<badRegex>> }

AssertTestInputs ==
  { [name |-> "t", url |-> "u"] } \cup
  [name : {"t"}, url : {"u"}, assertions : TestAssertions]

AssertTestLists == UNION { [1..n -> AssertTestInputs] : n \in 1..NumTests }

AssertBatchInputs == [parallel : {TRUE}, maxConcurrent : ConcurrencyChoices]

\* executeTest after a request that succeeded: the assertions, if any, are
\* evaluated by the orchestrator's one ValidationService, and their counts
\* become the result's assertionResults.  validateAssertions contains no
\* await, so it runs from reset() to getReport() within this task.  An
\* evaluation that throws lands in executeTest's catch: a failed result.
TestOk(t, resp) ==
  /\ MainSuspended
  /\ BatchRunning
  /\ tst[t].pc = "http"
  /\ "ok" \in AttemptOutcomes
  /\ LET as == Opt(tests[t], "assertions", <<>>)
     IN IF as = <<>>
          THEN Finish(t, TRUE, "ok") /\ UNCHANGED <<valVars, testSummary>>
          ELSE /\ ValidateAssertions(resp, as)
               /\ IF vThrew'
                    THEN Finish(t, FALSE, "ok") /\ UNCHANGED testSummary
                    ELSE /\ Finish(t, TRUE, "ok")
                         /\ testSummary' = [testSummary EXCEPT ![t] =
                              [made |-> TRUE,
                               passed |-> vReport'.passedAssertions,
                               failed |-> vReport'.failedAssertions,
                               total |-> vReport'.totalAssertions]]
  /\ UNCHANGED <<clientCfg, opts, tests, queue, ctrl, extAbort, report>>

\* parallel batches whose tests carry assertions
NextParAssert ==
  \/ mainPc = "idle" /\ \E ts \in AssertTestLists, o \in AssertBatchInputs :
       ExecuteBatch(ts, o) /\ UNCHANGED notBatch
  \/ ParLoop /\ UNCHANGED notBatch
  \/ ParAdmit /\ UNCHANGED notBatch
  \/ \E t \in 1..NumTests, resp \in ResponseInputs :
       TestOk(t, resp) /\ UNCHANGED <<httpVars, authVars, credVars, testAuth, priorAbort, toolVars>>
  \/ \E t \in 1..NumTests : HttpDone(t, "server5xx") /\ UNCHANGED notBatch
  \/ Return /\ UNCHANGED notBatch

SpecParAssert == InitAuth /\ [][NextParAssert]_vars

\* calls on a SessionManager and its clones
NextSession ==
  \/ \E i \in 1..Len(mgrs), id \in SessionIds, str \in CookieInputs :
       StoreSession(i, id, str) /\ UNCHANGED notTools
  \/ \E i \in 1..Len(mgrs), id \in SessionIds :
       SetCurrentSession(i, id) /\ UNCHANGED notTools
  \/ \E i \in 1..Len(mgrs), arg \in {<<>>} \cup {<<id>> : id \in SessionIds} :
       ClearSession(i, arg) /\ UNCHANGED notTools
  \/ \E i \in 1..Len(mgrs) : Clone(i) /\ UNCHANGED notTools

SpecSession == InitAuth /\ [][NextSession]_vars

\* the load_config and set_environment tools
NextEnv ==
  \/ \E file \in ConfigFiles, arg \in {NoValue} \cup {<<e>> : e \in EnvNames} :
       HandleLoadConfig(file, arg)
         /\ UNCHANGED <<batchVars, httpVars, authVars, valVars, ctxVars>>
  \/ \E environment \in EnvNames :
       HandleSetEnvironment(environment)
         /\ UNCHANGED <<batchVars, httpVars, authVars, valVars, ctxVars>>

SpecEnv == InitAuth /\ [][NextEnv]_vars

\* requests of the test_with_assertions tool
NextTwa ==
  \/ \E input \in TwaInputs : TwaExecute(input) /\ UNCHANGED notTools
  \/ \E o \in {"ok", "neterr"} : TwaReturns(o) /\ UNCHANGED notTools

SpecTwa == InitAuth /\ [][NextTwa]_vars

\* ------------------------------------- executeBatch called again, abort()
AbortTestLists ==
  UNION { [1..n -> {[name |-> "t", url |-> "u"]}] : n \in 1..NumTests }

AbortBatchInputs ==
  [parallel : BOOLEAN, stopOnFailure : BOOLEAN, maxConcurrent : ConcurrencyChoices]

\* executeBatch called on a service whose earlier call has returned: the same
\* as ExecuteBatch; the tests and the report are those of the new call
ExecuteBatchAgain(ts, o) ==
  /\ mainPc = "returned"
  /\ (\A k \in DOMAIN ts : ValidTest(ts[k])) /\ ValidOptions(o)
  /\ opts' = WithDefaults(o)
  /\ tests' = ts
  /\ results' = <<>>
  /\ stopped' = FALSE
  /\ ctrl' = TRUE
  /\ aborted' = FreshSignal(aborted)
  /\ idx' = 1
  /\ queue' = [k \in 1..Len(ts) |-> k]
  /\ executing' = {}
  /\ mainPc' = IF opts'.parallel THEN "parTop" ELSE "seqTop"
  /\ tst' = [t \in 1..NumTests |-> PendingTest]
  /\ extAbort' = FALSE
  /\ report' = NoReport
  /\ priorAbort' = (priorAbort \/ aborted)
  /\ UNCHANGED clientCfg

\* abort() called while no batch is running: if (this.abortController) ...
AbortIdle ==
  /\ ~BatchRunning
  /\ IF ctrl
       THEN aborted' = TRUE /\ extAbort' = TRUE
       ELSE UNCHANGED <<aborted, extAbort>>
  /\ UNCHANGED <<clientCfg, opts, tests, mainPc, idx, queue, executing, tst,
                 results, stopped, ctrl, report>>

NextAbort ==
  \/ mainPc = "idle" /\ \E ts \in AbortTestLists, o \in AbortBatchInputs :
       ExecuteBatch(ts, o) /\ UNCHANGED notBatch
  \/ mainPc = "returned" /\ \E ts \in AbortTestLists, o \in AbortBatchInputs :
       ExecuteBatchAgain(ts, o)
         /\ UNCHANGED <<httpVars, authVars, valVars, credVars, testAuth, testSummary, toolVars>>
  \/ SeqLoop /\ UNCHANGED notBatch
  \/ ParLoop /\ UNCHANGED notBatch
  \/ ParAdmit /\ UNCHANGED notBatch
  \/ \E t \in 1..NumTests, o \in {"ok", "server5xx", Canceled} :
       HttpDone(t, o) /\ UNCHANGED notBatch
  \/ Abort /\ UNCHANGED notBatch
  \/ AbortIdle /\ UNCHANGED notBatch
  \/ Return /\ UNCHANGED notBatch

SpecAbort == InitAuth /\ [][NextAbort]_vars

\* ------------------------------------------ the two retry levels together
OrchRetryChoices == {1, 2}

RetryBatchInputs ==
  { Merge([parallel |-> FALSE, stopOnFailure |-> TRUE], r) :
      r \in RetryInputs(OrchRetryChoices) }

\* sequential batches with every request followed through the client's
\* request interceptor: testAuth[t].sent has one entry per HTTP request
\* issued for test t, the first one, the client's retries
\* (this.client.request(config)) and those of the orchestrator's later tries
NextRetry ==
  \/ mainPc = "idle" /\ \E ts \in TestLists, o \in RetryBatchInputs :
       ExecuteBatch(ts, o) /\ UNCHANGED notBatch
  \/ SeqLoop /\ ExecuteTestAuth /\ UNCHANGED notBatchAuth
  \/ NoMicrotask /\ SeqTestDelayFires /\ ExecuteTestAuth /\ UNCHANGED notBatchAuth
  \/ \E t \in 1..NumTests, o \in HttpOutcomes :
       /\ NoMicrotask /\ testAuth[t].pend = "none"
       /\ HttpDone(t, o) /\ ExecuteTestAuth /\ UNCHANGED notBatchAuth
  \/ \E t \in 1..NumTests :
       /\ NoMicrotask
       /\ ClientBackoffFires(t) /\ ExecuteTestAuth /\ UNCHANGED notBatchAuth
  \/ \E t \in 1..NumTests :
       /\ NoMicrotask
       /\ OrchBackoffFires(t) /\ ExecuteTestAuth /\ UNCHANGED notBatchAuth
  \/ \E t \in 1..NumTests :
       Intercept(t) /\ UNCHANGED <<batchVars, httpVars, valVars, resolution, testSummary, priorAbort, toolVars>>
  \/ Return /\ UNCHANGED notBatch

SpecRetry == Init /\ [][NextRetry]_vars

NextSeq ==
  \/ mainPc = "idle" /\ \E ts \in TestLists \cup MalformedLists,
          o \in SeqInputs \cup {i \in InvalidOptions : ~i.parallel} :
       ExecuteBatch(ts, o) /\ UNCHANGED notBatch
  \/ SeqLoop /\ UNCHANGED notBatch
  \/ SeqDelayBetweenFires /\ UNCHANGED notBatch
  \/ SeqTestDelayFires /\ UNCHANGED notBatch
  \/ TestStep /\ UNCHANGED notBatch
  \/ Abort /\ UNCHANGED notBatch
  \/ Return /\ UNCHANGED notBatch

NextPar ==
  \/ mainPc = "idle" /\ \E ts \in TestLists \cup MalformedLists,
          o \in ParInputs \cup {i \in InvalidOptions : i.parallel} :
       ExecuteBatch(ts, o) /\ UNCHANGED notBatch
  \/ ParLoop /\ UNCHANGED notBatch
  \/ ParAdmit /\ UNCHANGED notBatch
  \/ ParDelayFires /\ UNCHANGED notBatch
  \/ TestStep /\ UNCHANGED notBatch
  \/ Abort /\ UNCHANGED notBatch
  \/ Return /\ UNCHANGED notBatch

NextHttp ==
  \E c \in 1..NumCalls :
    \/ HttpRequest(c) /\ UNCHANGED notHttp
    \/ HttpSetupFails(c) /\ UNCHANGED notHttp
    \/ HttpRespondOk(c) /\ UNCHANGED notHttp
    \/ \E o \in HttpOutcomes : HttpRespondError(c, o) /\ UNCHANGED notHttp
    \/ HttpRetryFires(c) /\ UNCHANGED notHttp

NextAuth ==
  \/ \E c \in 1..NumCallers, cfg \in OAuthConfigs :
       AuthResolve(c, cfg) /\ UNCHANGED <<notAuth, credVars>>
  \/ \E c \in 1..NumCallers, e \in ExpiresInChoices :
       AuthFetchReturns(c, e) /\ UNCHANGED <<notAuth, credVars>>
  \/ \E c \in 1..NumCallers : AuthFetchFails(c) /\ UNCHANGED <<notAuth, credVars>>
  \/ \E c \in 1..NumCallers : AuthRelease(c) /\ UNCHANGED <<notAuth, credVars>>
  \/ ClearAuth /\ UNCHANGED <<notAuth, resolution>>
  \/ \E d \in TickChoices : Tick(d) /\ UNCHANGED <<notAuth, credVars>>

SpecSeq == Init /\ [][NextSeq]_vars
SpecPar == Init /\ [][NextPar]_vars
SpecHttp == InitHttp /\ [][NextHttp]_vars
SpecAuth == InitAuth /\ [][NextAuth]_vars

NextVal ==
  \/ \E resp \in ResponseInputs, as \in AssertionLists :
       ValidateAssertions(resp, as) /\ UNCHANGED notVal
  \/ \E a \in DirectInputs : ValidateOne(a) /\ UNCHANGED notVal
  \/ Reset /\ UNCHANGED notVal
  \/ GetReport /\ UNCHANGED notVal

SpecVal == Init /\ [][NextVal]_vars

NextCred ==
  \/ \E a \in CredInputs \cup IncompleteInputs : SetAuth(a) /\ UNCHANGED notCred
  \/ \E arg \in CredInputs \cup IncompleteInputs \cup {NoAuth} :
       GetAuthHeaders(arg) /\ UNCHANGED notCred
  \/ ClearAuth /\ UNCHANGED <<notAuth, resolution>>

SpecCred == Init /\ [][NextCred]_vars

\* the client's token calls and the requests sent between them
NextToken ==
  \/ \E t \in TokenInputs, kind \in TokenKinds :
       SetAuthToken(t, kind) /\ UNCHANGED notCred
  \/ ClearAuth /\ UNCHANGED <<notAuth, resolution>>
  \/ \E own \in OwnHeaders : ApplyAuth(own) /\ UNCHANGED notCred

SpecToken == Init /\ [][NextToken]_vars

\* binding, reading and clearing the credential, with requests under way
NextBind ==
  \/ \E a \in BindInputs : SetAuth(a) /\ UNCHANGED notCred
  \/ ClearAuth /\ UNCHANGED <<notAuth, resolution>>
  \/ \E c \in 1..NumCallers : ApplyOAuth2(c) /\ UNCHANGED <<notAuth, credVars>>
  \/ \E c \in 1..NumCallers, e \in ExpiresInChoices :
       AuthFetchReturns(c, e) /\ UNCHANGED <<notAuth, credVars>>
  \/ \E c \in 1..NumCallers : AuthFetchFails(c) /\ UNCHANGED <<notAuth, credVars>>
  \/ \E c \in 1..NumCallers : AuthRelease(c) /\ UNCHANGED <<notAuth, credVars>>

SpecBind == InitAuth /\ [][NextBind]_vars

\* resolutions of OAuth2 credentials
NextOAuth ==
  \/ \E c \in 1..NumCallers, cfg \in OAuth2Inputs :
       GetOAuth2Headers(c, cfg) /\ UNCHANGED <<notAuth, credVars>>
  \/ \E c \in 1..NumCallers, e \in ExpiresInChoices :
       AuthFetchReturns(c, e) /\ UNCHANGED <<notAuth, credVars>>
  \/ \E c \in 1..NumCallers : AuthFetchFails(c) /\ UNCHANGED <<notAuth, credVars>>
  \/ \E c \in 1..NumCallers : RefreshReturns(c) /\ UNCHANGED <<notAuth, credVars>>
  \/ \E c \in 1..NumCallers : RefreshFails(c) /\ UNCHANGED <<notAuth, credVars>>
  \/ \E c \in 1..NumCallers : AuthRelease(c) /\ UNCHANGED <<notAuth, credVars>>

SpecOAuth == InitAuth /\ [][NextOAuth]_vars

NextReport == Return /\ UNCHANGED notBatch

SpecReport == InitReport /\ [][NextReport]_vars

\* batches of both modes
NextBatch ==
  \/ mainPc = "idle" /\ \E ts \in TestLists \cup MalformedLists,
          o \in SeqInputs \cup ParInputs \cup InvalidOptions :
       ExecuteBatch(ts, o) /\ UNCHANGED notBatch
  \/ SeqLoop /\ UNCHANGED notBatch
  \/ SeqDelayBetweenFires /\ UNCHANGED notBatch
  \/ SeqTestDelayFires /\ UNCHANGED notBatch
  \/ ParLoop /\ UNCHANGED notBatch
  \/ ParAdmit /\ UNCHANGED notBatch
  \/ ParDelayFires /\ UNCHANGED notBatch
  \/ TestStep /\ UNCHANGED notBatch
  \/ Abort /\ UNCHANGED notBatch
  \/ Return /\ UNCHANGED notBatch
SpecBatch == Init /\ [][NextBatch]_vars

\* The event loop runs every task that is ready: a coroutine that can go on
\* does, and each HTTP attempt and each timer eventually completes.  Nothing
\* is assumed of the callers of executeBatch and abort.
BatchFairness ==
  /\ WF_vars(SeqLoop /\ UNCHANGED notBatch)
  /\ WF_vars(SeqDelayBetweenFires /\ UNCHANGED notBatch)
  /\ WF_vars(SeqTestDelayFires /\ UNCHANGED notBatch)
  /\ WF_vars(ParLoop /\ UNCHANGED notBatch)
  /\ WF_vars(ParAdmit /\ UNCHANGED notBatch)
  /\ WF_vars(ParDelayFires /\ UNCHANGED notBatch)
  /\ WF_vars(TestStep /\ UNCHANGED notBatch)
  /\ WF_vars(Return /\ UNCHANGED notBatch)

\* the option sets of these batches: both modes, with and without
\* stopOnFailure, a delay between starts and one retry
FairBatchInputs ==
  { Merge([parallel |-> p, maxConcurrent |-> 2, stopOnFailure |-> s,
           delayBetween |-> d], r) :
      p \in BOOLEAN, s \in BOOLEAN, d \in DelayChoices, r \in RetryInputs(ParRetryChoices) }

NextBatchFair ==
  \/ mainPc = "idle" /\ \E ts \in TestLists, o \in FairBatchInputs :
       ExecuteBatch(ts, o) /\ UNCHANGED notBatch
  \/ SeqLoop /\ UNCHANGED notBatch
  \/ SeqDelayBetweenFires /\ UNCHANGED notBatch
  \/ SeqTestDelayFires /\ UNCHANGED notBatch
  \/ ParLoop /\ UNCHANGED notBatch
  \/ ParAdmit /\ UNCHANGED notBatch
  \/ ParDelayFires /\ UNCHANGED notBatch
  \/ TestStep /\ UNCHANGED notBatch
  \/ Abort /\ UNCHANGED notBatch
  \/ Return /\ UNCHANGED notBatch

SpecBatchFair == InitAuth /\ [][NextBatchFair]_vars /\ BatchFairness

\* ================================================================== claims
\* the tests that have been started and have not finished
Running ==
  {t \in 1..NumTests : tst[t].pc \in {"http", "clientBackoff", "orchBackoff"}}

\* the entries of results that belong to test t
ResultIdx(t) == {k \in 1..Len(results) : results[k].name = t}

ResultOf(t) == results[CHOOSE k \in ResultIdx(t) : TRUE]

\* C1: in parallel mode the number of tests started and not yet finished
\* never exceeds maxConcurrent.
C1_ConcurrencyBound ==
  opts.parallel => Cardinality(Running) <= opts.maxConcurrent

\* C1 witness: the limit is reached while tests still wait in the queue
C1_AtLimit ==
  /\ opts.parallel /\ opts.maxConcurrent = 2
  /\ queue # <<>>
  /\ Cardinality(Running) = opts.maxConcurrent

\* C2: sequential mode with stopOnFailure: the report holds the input tests in
\* input order up to and including the first failed one, no later test is
\* executed, and stopped is true exactly when a test failed.
C2_SeqStopOnFailure ==
  (mainPc = "returned" /\ ~opts.parallel /\ opts.stopOnFailure) =>
    LET rs == report.results IN
    /\ Len(rs) <= Len(tests)
    /\ \A k \in 1..Len(rs) : rs[k].name = k
    /\ \A k \in 1..Len(rs) : (k < Len(rs)) => rs[k].success
    /\ report.stopped <=> (\E k \in 1..Len(rs) : ~rs[k].success)
    /\ ~report.stopped => Len(rs) = Len(tests)
    /\ \A t \in 1..NumTests : (t > Len(rs)) => tst[t].pc = "pending"

\* C2 witness: [A ok, B fail, C] gives results [A, B], stopped, C not executed
C2_StoppedAtSecond ==
  /\ mainPc = "returned" /\ ~opts.parallel /\ opts.stopOnFailure
  /\ Len(tests) = 3
  /\ Len(report.results) = 2
  /\ report.results[1].success /\ ~report.results[2].success
  /\ report.stopped
  /\ tst[3].pc = "pending"

C4_NoStartAfterCancel ==
  \A t \in 1..NumTests : ~tst[t].late

\* C8: a request that received a 4xx response is never retried.
C8_ClientErrorNeverRetried ==
  \A t \in 1..NumTests :
    tst[t].last = "client4xx" => tst[t].pc \notin {"clientBackoff", "orchBackoff"}

C7_ClientRetry ==
  \A c \in 1..NumCalls :
    /\ calls[c].attempts <= clientCfg.retryAttempts + 1
    /\ (calls[c].pc = "backoff") =>
         /\ calls[c].last \in {"neterr", "server5xx"}
         /\ calls[c].retryCount = calls[c].attempts
         /\ calls[c].attempts <= clientCfg.retryAttempts
         /\ calls[c].wait = clientCfg.retryDelay * Pow2(calls[c].attempts - 1)
    /\ (clientCfg.retryAttempts = 0 /\ calls[c].pc \in {"resolved", "rejected"}
          /\ calls[c].last # "setup") => calls[c].attempts = 1

\* C7 witness: a call waits for its second retry
C7_SecondRetry ==
  \E c \in 1..NumCalls :
    calls[c].pc = "backoff" /\ calls[c].attempts = 2 /\ calls[c].wait = 2000

\* C9: the metrics handed back with a response or an error carry retryCount =
\* the number of retries made (an absent retryCount read as 0).
C9_RetryCountReported ==
  \A c \in 1..NumCalls :
    (calls[c].pc \in {"resolved", "rejected"} /\ calls[c].out.attached) =>
      (IF calls[c].out.retryCount = Undefined THEN 0 ELSE calls[c].out.retryCount)
        = calls[c].retryCount

\* C5: callers that need the same missing token cause one token request: at
\* no time are two token requests for one (clientId, tokenUrl) in flight.
C5_SingleFetchPerKey ==
  \A c1, c2 \in 1..NumCallers :
    (c1 # c2 /\ callers[c1].pc = "fetching" /\ callers[c2].pc = "fetching")
      => callers[c1].key # callers[c2].key

\* C6: a token is taken from the cache only while now < its expiry; otherwise
\* the resolution fetches; a fetched token replaces the entry with expiry =
\* fetch time + expires_in seconds, 3600 when expires_in is absent.
C6_TokenExpiry ==
  [][ \A c \in 1..NumCallers :
        LET k == callers'[c].key IN
        /\ (callers[c].pc = "idle" /\ callers'[c].pc = "done") =>
             (k \in DOMAIN tokenExpiryTimes /\ now < tokenExpiryTimes[k])
        /\ (callers[c].pc = "idle" /\ callers'[c].pc = "fetching") =>
             (k \notin DOMAIN tokenExpiryTimes \/ now >= tokenExpiryTimes[k])
        /\ (callers[c].pc = "fetching" /\ callers'[c].pc = "done") =>
             /\ tokenCache'[k].access_token = callers'[c].token
             /\ tokenExpiryTimes'[k] =
                  now + 1000 * (IF tokenCache'[k].expires_in = Undefined
                                  THEN 3600 ELSE tokenCache'[k].expires_in)
    ]_vars

\* C11: with stopOnFailure false and no external abort, executeBatch returns
\* a report with exactly one entry for every submitted test, in both modes,
\* whichever tests fail.
C11_FailureDoesNotEndBatch ==
  (mainPc = "returned" /\ ~opts.stopOnFailure /\ ~extAbort) =>
    /\ report.made
    /\ Len(report.results) = Len(tests)
    /\ \A t \in 1..Len(tests) :
         Cardinality({k \in 1..Len(report.results) : report.results[k].name = t}) = 1

\* C11 witness: a parallel batch of three tests, the first two recorded as
\* failed, returns all three entries
C11_AllRecorded ==
  /\ mainPc = "returned" /\ ~opts.stopOnFailure /\ ~extAbort /\ opts.parallel
  /\ Len(tests) = 3 /\ Len(report.results) = 3
  /\ ~report.results[1].success /\ ~report.results[2].success

C13_EveryAssertionEvaluated ==
  vInput.given =>
    /\ vReport.made
    /\ vReport.totalAssertions = Len(vInput.assertions)
    /\ \A i \in 1..Len(vInput.assertions) :
         i <= Len(vReport.results) /\ vReport.results[i].assertion = vInput.assertions[i]

\* C14: the assertion engine never throws: a malformed pattern or path gives
\* a result with passed = false and an error string.
C14_EngineNeverThrows ==
  /\ ~vThrew
  /\ \A k \in 1..Len(vResults) :
       ~vResults[k].assertion.valid => (~vResults[k].passed /\ vResults[k].hasError)

\* C16: every ValidationReport has totalAssertions = passedAssertions +
\* failedAssertions = the number of results, and overallPassed exactly when
\* failedAssertions = 0.
C16_ValidationReportTotals ==
  vReport.made =>
    /\ vReport.totalAssertions = vReport.passedAssertions + vReport.failedAssertions
    /\ vReport.totalAssertions = Len(vReport.results)
    /\ vReport.overallPassed <=> (vReport.failedAssertions = 0)

\* C16 witness: a report over passed and failed results, after validate* calls
C16_MixedReport ==
  /\ vReport.made /\ ~vInput.given
  /\ vReport.passedAssertions = 1 /\ vReport.failedAssertions = 1
  /\ ~vReport.overallPassed

\* C15: the client returns every HTTP status it receives as a response; only
\* a failure without response is raised as an error.
C15_StatusIsResponse ==
  \A c \in 1..NumCalls :
    calls[c].pc = "rejected" => calls[c].last \notin {"client4xx", "server5xx"}

\* the sum of field f of the assertion summaries of the first n results
RECURSIVE SummedUpTo(_, _, _)
SummedUpTo(rs, n, f) ==
  IF n = 0
    THEN 0
    ELSE SummedUpTo(rs, n - 1, f)
         + (IF "assertionResults" \in DOMAIN rs[n] THEN rs[n].assertionResults[f] ELSE 0)

\* C17: every BatchReport has totalTests = number of results = successfulTests
\* + failedTests, successRate = successfulTests / totalTests * 100 (0 without
\* results), and assertion totals that are the sums of the summaries of the
\* results that carry one (no totals are reported when that sum is 0).
C17_BatchReportTotals ==
  report.made =>
    LET rs == report.results
        n == Len(rs)
        sm == report.summary
    IN /\ report.totalTests = n
       /\ report.totalTests = report.successfulTests + report.failedTests
       /\ report.successfulTests = Cardinality({k \in 1..n : rs[k].success})
       /\ IF n = 0
            THEN sm.successRate.num = 0
            ELSE sm.successRate.num * n = report.successfulTests * 100 * sm.successRate.den
       /\ IF "totalAssertions" \in DOMAIN sm
            THEN /\ sm.totalAssertions = SummedUpTo(rs, n, "total")
                 /\ sm.passedAssertions = SummedUpTo(rs, n, "passed")
                 /\ sm.failedAssertions = SummedUpTo(rs, n, "failed")
            ELSE SummedUpTo(rs, n, "total") = 0

\* C17 witness: a report over a failed test, a test without assertions and
\* one with a passed and a failed assertion
C17_MixedBatchReport ==
  /\ report.made /\ report.totalTests = 3
  /\ report.successfulTests = 2 /\ report.failedTests = 1
  /\ "assertionResults" \notin DOMAIN report.results[2]
  /\ "totalAssertions" \in DOMAIN report.summary
  /\ report.summary.passedAssertions = 1 /\ report.summary.failedAssertions = 1

\* C18: a test ended by the cancellation signal is recorded as failed with
\* the cancellation error: no entry with the cancellation is successful, a
\* test that ends while the signal is aborted gets exactly that entry, and a
\* returned report has one entry for every test that was started.
C18_AbortedRecordedAsFailed ==
  /\ [](\A k \in 1..Len(results) : results[k].outcome = Canceled => ~results[k].success)
  /\ []((mainPc = "returned") =>
          \A t \in 1..NumTests :
            tst[t].pc # "pending" =>
              Cardinality({k \in 1..Len(report.results) : report.results[k].name = t}) = 1)
  /\ [][ \A t \in 1..NumTests :
           (aborted /\ tst[t].pc # "done" /\ tst'[t].pc = "done") =>
             /\ Len(results') = Len(results) + 1
             /\ results'[Len(results')] =
                  [name |-> t, success |-> FALSE, outcome |-> Canceled] ]_vars

\* C18 witness: after an external abort a test that was in flight is in the
\* returned report as failed with the cancellation
C18_CancelledInReport ==
  /\ mainPc = "returned" /\ extAbort
  /\ \E k \in 1..Len(report.results) :
       /\ report.results[k].outcome = Canceled
       /\ ~report.results[k].success
       /\ ~tst[report.results[k].name].late

\* C19: after abort() no pending inter-test delay, per-test delay or
\* orchestrator backoff is waited to its end, and no test starts a new HTTP
\* attempt.
C19_SuspensionsCancellable ==
  [][ aborted =>
        /\ ~(mainPc \in {"seqDelayBetween", "seqTestDelay", "parDelay"} /\ mainPc' # mainPc)
        /\ \A t \in 1..NumTests :
             ~(tst[t].pc \in {"pending", "orchBackoff", "clientBackoff"} /\ tst'[t].pc = "http")
    ]_vars

\* C20: resolving a Session credential does not fail and yields the header
\* Cookie = its cookie string merged with its extra headers, an extra header
\* winning on a name collision.
C20_SessionHeaders ==
  (resolution.made /\ resolution.auth.type = "session") =>
    /\ ~resolution.threw
    /\ resolution.headers =
         Merge(Opt(resolution.auth, "headers", NoHeaders),
               Header("Cookie", <<resolution.auth.cookies>>))

\* C21: resolving an OAuth2 credential follows the order accessToken, then
\* client_credentials with a tokenUrl (cache or token request), then
\* refresh_token with refreshToken and tokenUrl (a request on every resolution,
\* never cached), and fails without a request in every other case.
C21_OAuth2DecisionOrder ==
  /\ [](\A c \in 1..NumCallers :
          callers[c].pc # "idle" =>
            LET r == callers[c]
                cfg == r.cfg
            IN IF cfg.accessToken # ""
                 THEN r.pc = "done" /\ r.fetchNo = 0 /\ ~r.viaCache
                      /\ OAuth2Headers(r) =
                           Header("Authorization", <<"Bearer", " ", cfg.accessToken>>)
               ELSE IF cfg.grantType = "client_credentials" /\ cfg.tokenUrl # ""
                 THEN \/ r.pc = "done" /\ r.viaCache /\ r.fetchNo = 0
                      \/ r.pc \in {"fetching", "done", "failed"}
                           /\ ~r.viaCache /\ r.fetchNo > 0
               ELSE IF cfg.grantType = "refresh_token" /\ cfg.refreshToken # ""
                       /\ cfg.tokenUrl # ""
                 THEN r.pc \in {"refreshing", "done", "failed"}
                      /\ ~r.viaCache /\ r.fetchNo > 0
               ELSE r.pc = "failed" /\ r.fetchNo = 0)
  /\ [][\A c \in 1..NumCallers :
          /\ callers[c].pc = "refreshing" /\ callers'[c].pc # "refreshing"
               => UNCHANGED <<tokenCache, tokenExpiryTimes>>
          /\ callers[c].pc = "idle" /\ callers'[c].pc # "idle"
               => IF callers'[c].fetchNo = 0
                    THEN fetches' = fetches
                    ELSE fetches' = fetches + 1 /\ callers'[c].fetchNo = fetches']_vars

C21_RefreshedBesideDirect ==
  \E c, d \in 1..NumCallers :
    /\ callers[c].pc = "done" /\ callers[c].cfg.accessToken = ""
    /\ callers[c].cfg.grantType = "refresh_token"
    /\ callers[c].key \notin DOMAIN tokenCache
    /\ callers[d].pc = "done" /\ callers[d].cfg.accessToken # ""
    /\ callers[d].cfg.grantType = "client_credentials"

\* C22: one credential is bound at a time: setAuth replaces it and leaves the
\* token cache alone, getAuth returns the credential set last (null after a
\* clear), and clearAuth unbinds it and empties both maps of the token cache;
\* nothing else changes the binding or removes a cache entry.
C22_CredentialBinding ==
  /\ [](/\ GetAuth \in BindInputs \cup {NoAuth}
        /\ DOMAIN tokenCache = DOMAIN tokenExpiryTimes)
  /\ [][/\ (GetAuth' # GetAuth /\ GetAuth' # NoAuth)
             => UNCHANGED <<tokenCache, tokenExpiryTimes>>
        /\ (GetAuth' # GetAuth /\ GetAuth' = NoAuth)
             => (tokenCache' = <<>> /\ tokenExpiryTimes' = <<>>)
        /\ (\E k \in DOMAIN tokenCache \cup DOMAIN tokenExpiryTimes :
              k \notin DOMAIN tokenCache' \/ k \notin DOMAIN tokenExpiryTimes')
             => (GetAuth' = NoAuth /\ tokenCache' = <<>>
                 /\ tokenExpiryTimes' = <<>>)]_vars

C22_ReboundWithCachedToken ==
  /\ currentAuth.type = "bearer"
  /\ tokenCache # <<>>
  /\ DOMAIN tokenExpiryTimes = DOMAIN tokenCache

\* C23: resolving a credential that lacks a field its kind requires (Bearer
\* without token, Basic without username or password, ApiKey without key)
\* fails and produces no header.
C23_IncompleteCredentialRefused ==
  (/\ resolution.made
   /\ \/ resolution.auth.type = "bearer" /\ "token" \notin DOMAIN resolution.auth
      \/ resolution.auth.type = "basic"
           /\ ~({"username", "password"} \subseteq DOMAIN resolution.auth)
      \/ resolution.auth.type = "apikey" /\ "key" \notin DOMAIN resolution.auth)
    => (resolution.threw /\ resolution.headers = NoHeaders)

\* C25: after setAuthToken(t, kind) every request carries the header of that
\* kind with the token as given (Bearer t, Basic t, X-API-Key t), and after
\* clearAuthToken a request carries only the headers it came with.
C25_TokenHeaders ==
  resolution.made =>
    LET a == resolution.auth
        sent == resolution.headers
    IN /\ ~resolution.threw
       /\ a.type = "null" => sent = resolution.own
       /\ a.type = "bearer" =>
            sent = Merge(Header("Authorization", <<"Bearer", " ", a.token>>),
                         resolution.own)
       /\ a.type = "apikey" =>
            sent = Merge(Header("X-API-Key", <<a.key>>), resolution.own)
       /\ a.type = "basic" =>
            \E t \in TokenInputs :
              /\ a = TokenCredential(t, "Basic")
              /\ sent = Merge(Header("Authorization", <<"Basic", " ", t>>),
                              resolution.own)

C29_StoppedFlag ==
  (mainPc = "returned" /\ ~extAbort) =>
    /\ (opts.stopOnFailure
        /\ \E k \in 1..Len(report.results) : ~report.results[k].success)
         => report.stopped
    /\ (\A t \in 1..Len(tests) : tst[t].pc = "done") => ~report.stopped

\* C30: a test with a delay of its own is started only when that delay has
\* been waited, in either mode.
C30_TestDelayWaited ==
  [][\A t \in 1..NumTests :
       (t <= Len(tests) /\ tst[t].pc = "pending" /\ tst'[t].pc # "pending"
        /\ TestDelay(tests[t]) > 0)
         => mainPc = "seqTestDelay"]_vars

\* C26: in parallel mode every request of a test that carries its own auth is
\* sent with that test's credential, never with another test's.
C26_OwnCredentialSent ==
  opts.parallel =>
    \A t \in 1..Len(tests) :
      HasAuth(t) =>
        \A k \in 1..Len(testAuth[t].sent) : testAuth[t].sent[k] = tests[t].auth

\* C28: in a sequential batch whose tests all carry the same
\* client_credentials credential, and with no token expiring in between, one
\* token request is sent: later tests use the token cached by the first.
C28_OneFetchPerBatch ==
  (/\ ~opts.parallel
   /\ Len(tests) >= 2
   /\ \A t \in 1..Len(tests) : HasAuth(t) /\ tests[t].auth.type = "oauth2"
                               /\ tests[t].auth = tests[1].auth)
    => fetches <= 1

\* C27: in a parallel batch the assertion summary of a test counts the
\* results of that test's own assertions only, although all tests are
\* evaluated by one ValidationService.
C27_OwnAssertionsCounted ==
  \A t \in 1..Len(tests) :
    testSummary[t].made =>
      LET as == tests[t].assertions
          counted == {k \in 1..Len(as) : as[k].type # "bodyJson"}
          passing == {k \in counted : as[k].valid /\ as[k].holds}
      IN /\ testSummary[t].total = Cardinality(counted)
         /\ testSummary[t].passed = Cardinality(passing)
         /\ testSummary[t].failed = Cardinality(counted \ passing)

C27_TwoSummariesOutOfOrder ==
  /\ mainPc = "returned"
  /\ opts.maxConcurrent = 2
  /\ Len(results) = 3
  /\ results[1].name = 2
  /\ testSummary[1].made /\ testSummary[2].made
  /\ testSummary[1].total = 2 /\ testSummary[2].total = 1
  /\ ~results[3].success /\ results[3].outcome = "ok"

\* C31: under every combination of options, with stopOnFailure and external
\* aborts, a test only moves pending -> running -> done: it is started at
\* most once, has at most one entry in results, the entry is written when the
\* test finishes and says whether it succeeded, and a test never started has
\* no entry.
C31_TestStateMachine ==
  /\ [](\A t \in 1..NumTests :
          /\ Cardinality(ResultIdx(t)) <= 1
          /\ (ResultIdx(t) # {}) <=> (tst[t].pc = "done")
          /\ Len(results) = Cardinality({u \in 1..NumTests : tst[u].pc = "done"})
          /\ tst[t].pc = "pending" => tst[t].attempts = 0)
  /\ [][\A t \in 1..NumTests :
          /\ tst[t].pc # "pending" => tst'[t].pc # "pending"
          /\ tst[t].pc = "done" => tst'[t] = tst[t]
          /\ (tst[t].pc = "pending" /\ tst'[t].pc # "pending")
               => (tst'[t].pc = "http" /\ tst'[t].attempts = 1)
          /\ (tst[t].pc # "done" /\ tst'[t].pc = "done")
               => (tst[t].pc = "http" /\ results' = Append(results, results'[Len(results')])
                   /\ results'[Len(results')].name = t)
          /\ tst'[t].attempts >= tst[t].attempts]_vars

C31_AbortedWithAllThreeStates ==
  /\ mainPc = "returned" /\ extAbort
  /\ Len(tests) = 3
  /\ \E a, b \in 1..3 :
       /\ a # b
       /\ tst[a].pc = "done" /\ ResultOf(a).success
       /\ tst[b].pc = "done" /\ ~ResultOf(b).success
       /\ \E c \in 1..3 : tst[c].pc = "pending"

\* C32: the two retry levels compose: within one try of the orchestrator the
\* client retries at most its own retryAttempts times, every new try of the
\* orchestrator starts with the client's retry counter at zero, and the HTTP
\* requests issued for one test never number more than
\* (orchestrator tries) * (client retryAttempts + 1).
C32_RetriesCompose ==
  /\ [](\A t \in 1..NumTests :
          /\ tst[t].retryCount <= clientCfg.retryAttempts
          /\ tst[t].attempts <= (IF opts.retryOnFailure THEN opts.retryAttempts + 1 ELSE 1)
          /\ Len(testAuth[t].sent) + (IF testAuth[t].pend = "intercept" THEN 1 ELSE 0)
               <= (IF opts.retryOnFailure THEN opts.retryAttempts + 1 ELSE 1)
                    * (clientCfg.retryAttempts + 1)
          /\ Len(testAuth[t].sent) <= (opts.retryAttempts + 1) * (clientCfg.retryAttempts + 1))
  /\ [][\A t \in 1..NumTests :
          tst'[t].attempts > tst[t].attempts =>
            (tst'[t].attempts = tst[t].attempts + 1 /\ tst'[t].retryCount = 0)]_vars

C32_BothBudgetsUsedUp ==
  \E t \in 1..NumTests :
    /\ tst[t].pc = "done"
    /\ opts.retryOnFailure /\ opts.retryAttempts = 2 /\ clientCfg.retryAttempts = 1
    /\ Len(testAuth[t].sent) = 6

\* C33: when executeBatch returns, the credential bound to the shared client
\* is the one bound before the call; the client of these batches has none
\* bound when executeBatch is called.
C33_CredentialRestored ==
  mainPc = "returned" => GetAuth = NoAuth

\* the same for sequential batches only
C33_RestoredSequential ==
  (mainPc = "returned" /\ ~opts.parallel) => GetAuth = NoAuth

\* C34: the success flag of a batch test depends on the outcome of its
\* request only: a test whose request returned without error is recorded
\* with success = true, whatever became of its assertions.
C34_SuccessFollowsRequest ==
  \A k \in 1..Len(results) :
    results[k].outcome = "ok" => results[k].success

\* the same for the tests whose assertions were all evaluated: failed
\* assertions leave the test a success
C34_FailedAssertionsKeepSuccess ==
  \A t \in 1..Len(tests) :
    (testSummary[t].made /\ testSummary[t].failed > 0) =>
      \E k \in 1..Len(results) : results[k].name = t /\ results[k].success

\* C35: every executeBatch call runs under a new signal that is not aborted:
\* the signal of a running batch is aborted only by an abort() made during
\* that batch or by a failed test of that batch under stopOnFailure, so an
\* abort of an earlier batch stops no test of a later one; while no batch is
\* running there is no controller, and a step that does not start a batch
\* (abort()) changes nothing.
C35_FreshSignal ==
  /\ [](BatchRunning =>
         (aborted =>
            \/ extAbort
            \/ (opts.parallel /\ opts.stopOnFailure
                /\ \E k \in 1..Len(results) : ~results[k].success)))
  /\ [](~BatchRunning => ~ctrl)
  /\ [][(mainPc = "returned" /\ BatchRunning') =>
          (~aborted' /\ ctrl' /\ results' = <<>>)]_vars
  /\ [][(~BatchRunning /\ mainPc' = mainPc) => UNCHANGED batchVars]_vars

\* a batch after an aborted one has run all its tests to success
C35_FullBatchAfterAbort ==
  /\ priorAbort
  /\ mainPc = "returned"
  /\ ~aborted
  /\ Len(tests) = NumTests
  /\ Len(results) = NumTests
  /\ \A k \in 1..Len(results) : results[k].success /\ results[k].outcome = "ok"

\* C36: executeBatch terminates: a call that passed the validation of its
\* inputs eventually returns a report, provided every HTTP attempt and every
\* timer completes; in parallel mode the loop does not stay for ever at
\* Promise.race, at the delay between starts or at Promise.all.
C36_Terminates ==
  /\ BatchRunning ~> (mainPc = "returned" /\ report.made)
  /\ \A pc \in {"parRace", "parDelay", "parAll"} : (mainPc = pc) ~> (mainPc # pc)

\* a parallel batch with retries and a delay between starts has returned with
\* all its tests, two of them having been in flight at a time
C36_ParallelBatchReturned ==
  /\ mainPc = "returned" /\ report.made
  /\ opts.parallel /\ opts.maxConcurrent = 2 /\ opts.delayBetween > 0
  /\ opts.retryOnFailure
  /\ Len(tests) = NumTests /\ Len(results) = NumTests
  /\ \E t \in 1..NumTests : tst[t].attempts > 1

\* C37: when execute is given an auth configuration, the request it issues
\* carries the header of that auth: Authorization "Bearer <token>" for a
\* bearer token, an Authorization header for basic, the key under its header
\* name for an API key.
C37_RequestCarriesAuth ==
  (twa.pc = "request" /\ "auth" \in DOMAIN twa.input) =>
    LET auth == twa.input.auth
        headers == twa.sent[Len(twa.sent)]
    IN /\ (auth.type = "bearer" /\ "token" \in DOMAIN auth) =>
            ("Authorization" \in DOMAIN headers
             /\ headers["Authorization"] = <<"Bearer", " ", auth.token>>)
       /\ auth.type = "basic" => "Authorization" \in DOMAIN headers
       /\ auth.type = "apikey" =>
            (Opt(auth, "keyName", "X-API-Key") \in DOMAIN headers
             /\ headers[Opt(auth, "keyName", "X-API-Key")] = <<auth.key>>)

\* C38: on every SessionManager, after any sequence of storeSession,
\* setCurrentSession, clearSession and clone, the current session id is null
\* or the id of a stored session; setCurrentSession with an id that is not
\* stored throws and leaves the current id and the sessions as they were, and
\* with a stored id it makes that id current.
C38_CurrentSessionStored ==
  \A i \in 1..Len(mgrs) :
    LET m == mgrs[i]
    IN /\ m.currentSessionId = NoSession
          \/ m.currentSessionId[1] \in DOMAIN m.sessions
       /\ m.last.op = "setCurrentSession" =>
            IF m.last.id \in DOMAIN m.last.before.sessions
              THEN ~m.last.threw /\ m.currentSessionId = <<m.last.id>>
                   /\ m.sessions = m.last.before.sessions
              ELSE m.last.threw
                   /\ m.currentSessionId = m.last.before.currentSessionId
                   /\ m.sessions = m.last.before.sessions

\* a clone whose current session was cleared by id, and on which
\* setCurrentSession then threw for that id, beside an original that still
\* has it
C38_ClearedOnClone ==
  /\ Len(mgrs) = MaxManagers
  /\ mgrs[1].currentSessionId = <<"s1">>
  /\ mgrs[2].last.op = "setCurrentSession" /\ mgrs[2].last.id = "s1"
  /\ mgrs[2].last.threw
  /\ mgrs[2].currentSessionId = NoSession
  /\ "" \in DOMAIN mgrs[2].sessions

\* C39: after a successful set_environment the credential bound to the client
\* is the auth of the newly active environment, none if it defines none;
\* after a failed one the active environment and the client are as before.
C39_CredentialOfActiveEnvironment ==
  cm.last.op = "set_environment" =>
    IF cm.last.success
      THEN /\ cm.currentEnvironment = <<cm.last.environment>>
           /\ GetAuth = Opt(cm.configFile[1].environments[cm.last.environment],
                            "auth", NoAuth)
      ELSE /\ cm.currentEnvironment = cm.last.before.currentEnvironment
           /\ GetAuth = cm.last.before.auth
           /\ cm.baseURL = cm.last.before.baseURL

\* the same without the case of an environment that defines no auth
C39_CredentialReplaced ==
  cm.last.op = "set_environment" =>
    IF cm.last.success
      THEN /\ cm.currentEnvironment = <<cm.last.environment>>
           /\ "auth" \in DOMAIN cm.configFile[1].environments[cm.last.environment]
                => GetAuth = cm.configFile[1].environments[cm.last.environment].auth
      ELSE /\ cm.currentEnvironment = cm.last.before.currentEnvironment
           /\ GetAuth = cm.last.before.auth
           /\ cm.baseURL = cm.last.before.baseURL

====
